---------------------------- MODULE Spec2Model ----------------------------
(***************************************************************************)
(* Signal-fusion and zoning engine of gatekeeper_ng                        *)
(* (app/tracker.py, app/signal_proc.py, app/mqtt_client.py).               *)
(*                                                                         *)
(* Units.  Time is in whole seconds.  RSSI samples are integers (dBm);     *)
(* smoothed RSSI is kept in units of 1/RssiScale dBm, fine enough to hold  *)
(* the moving average without rounding; distances are kept in centimetres, *)
(* which is the resolution calculate_distance rounds to (round(d, 2)       *)
(* metres).  So -100 is the distance -1.0 m, 80 is the hysteresis of 0.8 m *)
(* and 99900 is the 999.0 m sentinel.                                      *)
(***************************************************************************)
EXTENDS Integers, Sequences, FiniteSets, TLC

\* ------------------------------------------------------------------------
\* Program constants
\* ------------------------------------------------------------------------
median_window == 7
absence_timeout == 60
debounce_time == 5
hysteresis_dist == 80
heartbeat_interval == 30
save_throttle == 60
discovery_cap == 200
discovery_max_age == 300
default_ref_rssi == -65
NO_DIST == 99900
\* current_room_best_rssi = -999.0: a placeholder below every RSSI, replaced
\* before it is stored (the integer width cannot hold -999 * RssiScale)
NO_RSSI == -2000000000
\* smoothed RSSI is counted in units of 10^-7 dBm
RssiScale == 10000000

\* ------------------------------------------------------------------------
\* Bounds of the model
\* ------------------------------------------------------------------------
\* samples one (satellite, device) buffer receives
MaxSamples == 2

\* ------------------------------------------------------------------------
\* Small helpers
\* ------------------------------------------------------------------------
None == "None"

\* nearest integer to n / d (d > 0), halves rounded up
RoundDiv(n, d) == (2 * n + d) \div (2 * d)

RECURSIVE Pow10(_)
Pow10(k) == IF k = 0 THEN 1 ELSE 10 * Pow10(k - 1)

\* the dict d with d[k] = v (key added when absent)
Put(d, k, v) == [x \in (DOMAIN d) \cup {k} |-> IF x = k THEN v ELSE d[x]]

\* insertion-ordered key list of a dict after d[k] = v
PutOrder(order, k) ==
    IF \E i \in 1..Len(order) : order[i] = k THEN order ELSE Append(order, k)

\* ------------------------------------------------------------------------
\* signal_proc.py
\* ------------------------------------------------------------------------
\* sorted copy of a sequence of integers (insertion sort)
RECURSIVE Insert(_, _)
Insert(s, x) ==
    IF s = <<>> THEN <<x>>
    ELSE IF x <= Head(s) THEN <<x>> \o s
    ELSE <<Head(s)>> \o Insert(Tail(s), x)

RECURSIVE Sorted(_)
Sorted(s) == IF s = <<>> THEN <<>> ELSE Insert(Sorted(Tail(s)), Head(s))

\* statistics.median, in units of 1/RssiScale: the middle value, or the
\* mean of the two middle values for an even length
Median(h) ==
    LET s == Sorted(h)
        n == Len(s)
    IN  IF n % 2 = 1 THEN RssiScale * s[(n + 1) \div 2]
        ELSE (RssiScale \div 2) * (s[n \div 2] + s[n \div 2 + 1])

\* history.append(rssi); pop(0) when longer than median_window
PushHistory(history, rssi) ==
    LET h == Append(history, rssi)
    IN  IF Len(h) > median_window THEN Tail(h) ELSE h

\* EMA_t = alpha * x_t + (1 - alpha) * EMA_{t-1}, alpha = 0.2
\* (a buffer without the field ema_value is one whose ema_value is None).
\* 0.2 * x is x / 5 and 0.8 * y is y - y / 5; both divisions are exact for
\* the first eight samples of a buffer, whose average has at most seven
\* decimals
EmaStep(buf, median_val) ==
    IF "ema_value" \notin DOMAIN buf THEN median_val
    ELSE (median_val \div 5) + (buf.ema_value - (buf.ema_value \div 5))

\* SignalBuffer(): empty history, ema_value None
NewBuffer == [history |-> <<>>]

\* SignalBuffer.add_sample: the buffer after the sample; its ema_value is
\* the returned smoothed value
add_sample(buf, rssi) ==
    LET h == PushHistory(buf.history, rssi)
    IN  [history |-> h, ema_value |-> EmaStep(buf, Median(h))]

\* 10^(k/250) for k in 0..249, scaled by 10^6 (the powers of ten that
\* math.pow returns for the fractional part of the exponent)
Pow250 ==
    <<
      1000000, 1009253, 1018591, 1028016, 1037528, 1047129, 1056818, 1066596, 1076465, 1086426,
      1096478, 1106624, 1116863, 1127197, 1137627, 1148154, 1158777, 1169499, 1180321, 1191242,
      1202264, 1213389, 1224616, 1235947, 1247384, 1258925, 1270574, 1282331, 1294196, 1306171,
      1318257, 1330454, 1342765, 1355189, 1367729, 1380384, 1393157, 1406048, 1419058, 1432188,
      1445440, 1458814, 1472313, 1485936, 1499685, 1513561, 1527566, 1541700, 1555966, 1570363,
      1584893, 1599558, 1614359, 1629296, 1644372, 1659587, 1674943, 1690441, 1706082, 1721869,
      1737801, 1753881, 1770109, 1786488, 1803018, 1819701, 1836538, 1853532, 1870682, 1887991,
      1905461, 1923092, 1940886, 1958845, 1976970, 1995262, 2013724, 2032357, 2051162, 2070141,
      2089296, 2108628, 2128139, 2147830, 2167704, 2187762, 2208005, 2228435, 2249055, 2269865,
      2290868, 2312065, 2333458, 2355049, 2376840, 2398833, 2421029, 2443431, 2466039, 2488857,
      2511886, 2535129, 2558586, 2582260, 2606154, 2630268, 2654606, 2679168, 2703958, 2728978,
      2754229, 2779713, 2805434, 2831392, 2857591, 2884032, 2910717, 2937650, 2964831, 2992265,
      3019952, 3047895, 3076097, 3104560, 3133286, 3162278, 3191538, 3221069, 3250873, 3280953,
      3311311, 3341950, 3372873, 3404082, 3435579, 3467369, 3499452, 3531832, 3564511, 3597493,
      3630781, 3664376, 3698282, 3732502, 3767038, 3801894, 3837072, 3872576, 3908409, 3944573,
      3981072, 4017908, 4055085, 4092607, 4130475, 4168694, 4207266, 4246196, 4285485, 4325138,
      4365158, 4405549, 4446313, 4487454, 4528976, 4570882, 4613176, 4655861, 4698941, 4742420,
      4786301, 4830588, 4875285, 4920395, 4965923, 5011872, 5058247, 5105050, 5152286, 5199960,
      5248075, 5296634, 5345644, 5395106, 5445027, 5495409, 5546257, 5597576, 5649370, 5701643,
      5754399, 5807644, 5861382, 5915616, 5970353, 6025596, 6081350, 6137620, 6194411, 6251727,
      6309573, 6367955, 6426877, 6486344, 6546362, 6606934, 6668068, 6729767, 6792036, 6854882,
      6918310, 6982324, 7046931, 7112135, 7177943, 7244360, 7311391, 7379042, 7447320, 7516229,
      7585776, 7655966, 7726806, 7798301, 7870458, 7943282, 8016781, 8090959, 8165824, 8241381,
      8317638, 8394600, 8472274, 8550667, 8629785, 8709636, 8790225, 8871560, 8953648, 9036495,
      9120108, 9204496, 9289664, 9375620, 9462372, 9549926, 9638290, 9727472, 9817479, 9908319
    >>

\* calculate_distance(rssi, tx_power), n = 2.5:
\* CmFrom[d] is the smallest tx_power - rssi, in units of 1/RssiScale dB, at
\* which round(10 ** ((tx_power - rssi) / 25), 2) reaches d centimetres:
\* the least integer not below 25 * RssiScale * log10((d - 0.5) / 100)
CmFrom ==
    <<
      -575257498, -455977185, -400514997, -363982988, -336696871, -314909327,
      -296771660, -281234684, -267645268, -255569098, -244702675, -234825539,
      -225772496, -217416557, -209657999, -202417075, -195629013, -189240487,
      -183207067, -177491347, -172061534, -166890385, -161954370, -157233034,
      -152708478, -148364954, -144188531, -140166826, -136288784, -132544496,
      -128925040, -125422361, -122029159, -118738798, -115545226, -112442911,
      -109426783, -106492183, -103634817, -100850726, -98136244, -95487975,
      -92902767, -90377685, -87909997, -85497150, -83136761, -80826597,
      -78564565, -76348700, -74177155, -72048192, -69960174, -67911554,
      -65900874, -63926754, -61987888, -60083038, -58211033, -56370758,
      -54561156, -52781221, -51029995, -49306568, -47610071, -45939675,
      -44294588, -42674056, -41077357, -39503798, -37952720, -36423489,
      -34915498, -33428165, -31960931, -30513262, -29084641, -27674574,
      -26282585, -24908217, -23551029, -22210597, -20886512, -19578381,
      -18285822, -17008471, -15745973, -14497986, -13264182, -12044241,
      -10837855, -9644726, -8464566, -7297097, -6142047, -4999157,
      -3868171, -2748846, -1640942, -544229, 541516, 1616511,
      2680967, 3735088, 4779073, 5813115, 6837402, 7852117,
      8857435, 9853530, 10840570, 11818717, 12788131, 13748966,
      14701372, 15645497, 16581482, 17509467, 18429588, 19341977,
      20246762, 21144070, 22034023, 22916740, 23792338, 24660932,
      25522632, 26377547, 27225782, 28067443, 28902628, 29731439,
      30553970, 31370317, 32180572, 32984824, 33783163, 34575675,
      35362444, 36143552, 36919082, 37689110, 38453717, 39212976,
      39966962, 40715749, 41459407, 42198006, 42931614, 43660299,
      44384125, 45103159, 45817461, 46527095, 47232121, 47932599,
      48628586, 49320140, 50007317, 50690172, 51368760, 52043132,
      52713342, 53379440, 54041476, 54699500, 55353560, 56003703,
      56649977, 57292426, 57931096, 58566032, 59197275, 59824870,
      60448858, 61069281, 61686178, 62299590, 62909556, 63516114,
      64119302, 64719158, 65315718, 65909018, 66499093, 67085979,
      67669710, 68250319, 68827839, 69402304, 69973746, 70542195,
      71107684, 71670243, 72229902, 72786691, 73340639, 73891775,
      74440128, 74985726, 75528595, 76068763, 76606257, 77141104,
      77673329, 78202957, 78730014, 79254526, 79776515, 80296007,
      80813026, 81327593, 81839734, 82349470, 82856825, 83361819,
      83864476, 84364816, 84862861, 85358632, 85852149, 86343433,
      86832504, 87319382, 87804087, 88286637, 88767052, 89245351,
      89721552, 90195673, 90667733, 91137749, 91605740, 92071722,
      92535712, 92997728, 93457787, 93915904, 94372096, 94826380,
      95278771, 95729284, 96177936, 96624742, 97069716, 97512875,
      97954231, 98393801, 98831599, 99267638, 99701933, 100134498,
      100565346, 100994491, 101421947, 101847727, 102271843, 102694309,
      103115137, 103534341, 103951932, 104367924, 104782327, 105195155,
      105606420, 106016132, 106424304, 106830947, 107236073, 107639693,
      108041818, 108442459, 108841627, 109239333, 109635588, 110030401,
      110423784, 110815747, 111206300, 111595454, 111983217, 112369600,
      112754614, 113138266, 113520568, 113901529, 114281157, 114659463,
      115036455, 115412143, 115786535, 116159640, 116531468, 116902027,
      117271325, 117639372, 118006175, 118371743, 118736084, 119099207
    >>

\* the distance in centimetres for an exponent given in tenths of a dB:
\* e / 250 is split as a + k / 250.  Exact for every distance below 100 m.
DistanceOfTenths(e) ==
    LET a == e \div 250
        k == e % 250
    IN  IF a >= 4 THEN 100000000
        ELSE IF a <= -4 THEN 0
        ELSE RoundDiv(Pow250[k + 1], Pow10(4 - a))

\* round(10 ** ((tx_power - rssi) / 25), 2), in centimetres; rssi in units
\* of 1/RssiScale dBm, tx_power in dBm.  A smoothed value of whole tenths
\* goes through Pow250; any other goes through CmFrom, which reaches up to
\* 3.00 m (beyond it the exponent is cut to whole tenths).
calculate_distance(rssi, tx_power) ==
    IF rssi = 0 THEN -100
    ELSE LET diff == RssiScale * tx_power - rssi
             tenth == RssiScale \div 10
         IN  IF diff % tenth = 0 \/ diff >= CmFrom[Len(CmFrom)]
             THEN DistanceOfTenths(diff \div tenth)
             ELSE Cardinality({d \in 1..Len(CmFrom) : CmFrom[d] <= diff})

\* int(x) of a smoothed value: truncation toward zero
IntOf(x) == IF x >= 0 THEN x \div RssiScale ELSE -((-x) \div RssiScale)

\* ------------------------------------------------------------------------
\* Inputs of the model
\* ------------------------------------------------------------------------
\* raw RSSI samples (dBm)
RssiValues == {-50, -70}

\* values of PREF_BEACON_EXPIRATION in settings.json
ExpirationChoices == {15, 60}

\* str.upper()
Upper(s) == IF s = "aa:01" THEN "AA:01"
            ELSE IF s = "e2c56db5-01" THEN "E2C56DB5-01"
            ELSE s

\* devices.json of the model: one configured MAC device
DeviceAA == [identifier |-> "AA:01", identifier_type |-> "mac", alias |-> "Phone"]

\* the same device as devices.json may hold it: in lower case, as a legacy
\* entry with 'mac' only, and with 'identifier' but no identifier_type
DeviceLower == [identifier |-> "aa:01", identifier_type |-> "mac", alias |-> "Phone"]
DeviceLegacy == [mac |-> "aa:01", alias |-> "Phone"]
DeviceUntyped == [identifier |-> "aa:01", alias |-> "Phone"]

\* iBeacon devices as add_device stores them: the UUID as it was typed into
\* the form, in lower or in upper case
BeaconLower == [identifier |-> "e2c56db5-01", identifier_type |-> "uuid",
                alias |-> "Tag"]
BeaconUpper == [identifier |-> "E2C56DB5-02", identifier_type |-> "uuid",
                alias |-> "Key"]

\* satellites.json at start: both satellites configured, or only the first
SatKitchen == [room |-> "Kitchen", ref_rssi_1m |-> -59, last_seen |-> 0]
SatBedroom == [room |-> "Bedroom", ref_rssi_1m |-> -59, last_seen |-> 0]
BothConfigured == [s \in {"s1", "s2"} |-> IF s = "s1" THEN SatKitchen ELSE SatBedroom]
OnlyKitchen == [s \in {"s1"} |-> SatKitchen]

\* ------------------------------------------------------------------------
\* State
\* ------------------------------------------------------------------------
VARIABLES
    now,               \* time.time()
    connected,         \* MQTTClient.connected
    devices_file,      \* devices.json: sequence of device dicts
    settings_file,     \* settings.json: PREF_BEACON_EXPIRATION
    satellites,        \* satellites.json: sid -> record
    known_devices,     \* DeviceTracker.known_devices: key -> device dict
    timeout_interval,  \* DeviceTracker.timeout_interval
    reload,            \* position of a running reload_config (admin thread)
    current_state,     \* DeviceTracker.current_state: identifier -> state
    zoning_state,      \* DeviceTracker.zoning_state: identifier -> z_state
    signal_buffers,    \* DeviceTracker.signal_buffers: <<sat, id>> -> buffer
    discovery_cache,   \* DeviceTracker.discovery_cache
    last_sat_signals,  \* DeviceTracker.last_sat_signals
    outbox,            \* state updates the last handler issued
    obs,               \* what the last handler was and what it started from
    hist,              \* per device: record of the leads seen by evaluations
    env,               \* the environment of a run: the instants at which the
                       \* clock is read and the identifiers that are observed
    satellite_stats,   \* DeviceTracker.satellite_stats
    save_log,          \* sid -> the times of the last two calls of
                       \* save_satellites by the registration of that satellite
    inflight,          \* the registration the event loop is in, between its
                       \* load_satellites and its save_satellites
    admin,             \* the satellite request the admin thread is in, between
                       \* its load_satellites and its save_satellites
    admin_wrote,       \* sid -> room, x, y, ref_rssi_1m as the admin last saved
                       \* them
    interrupted,       \* the last save that did not complete: the file, its
                       \* content before and the content being written
    calib_sessions,    \* WebAdmin._calib_sessions: sid -> session
    reply,             \* what the last calibrate_satellite request returned
    calib_starts,      \* calibration sessions started so far
    retained,          \* the broker: topic -> the payload it retains
    discovery_log,     \* the messages of the last publish_discovery, in order
    loop_ready,        \* the event loop's queue of coroutines submitted by
                       \* run_coroutine_threadsafe and not yet run
    arrived,           \* observations the bus and radio threads have received
    ran                \* the observation the event loop ran last

vars == <<now, connected, devices_file, settings_file, satellites, known_devices,
          timeout_interval, reload, current_state, zoning_state, signal_buffers,
          discovery_cache, last_sat_signals, outbox, obs, hist, env,
          satellite_stats, save_log, inflight, admin, admin_wrote, interrupted,
          calib_sessions, reply, calib_starts, retained, discovery_log,
          loop_ready, arrived, ran>>

\* the two threads' positions in their load-modify-save of satellites.json
race_vars == <<inflight, admin, admin_wrote>>

\* the state of the satellite registry besides satellites.json
registry_vars == <<satellite_stats, save_log, race_vars, interrupted>>

\* the state of the admin server's calibration page
calib_vars == <<calib_sessions, reply, calib_starts>>

\* the discovery messages and what the broker retains of them
broker_vars == <<retained, discovery_log>>

\* the hand-over of observations from the bus and radio threads to the loop
loop_vars == <<loop_ready, arrived, ran>>

\* what the tracker does not hold itself
service_vars == <<calib_vars, broker_vars, loop_vars>>

Empty == [x \in {} |-> 0]

\* ------------------------------------------------------------------------
\* tracker.py: reload_config
\* ------------------------------------------------------------------------
\* key under which reload_config files a device dict
DeviceKey(d) ==
    IF "identifier" \in DOMAIN d
    THEN IF "identifier_type" \in DOMAIN d /\ d.identifier_type = "mac"
         THEN Upper(d.identifier) ELSE d.identifier
    ELSE Upper(d.mac)

RECURSIVE LoadKnown(_, _)
LoadKnown(devices, known) ==
    IF devices = <<>> THEN known
    ELSE LoadKnown(Tail(devices), Put(known, DeviceKey(Head(devices)), Head(devices)))

\* ------------------------------------------------------------------------
\* tracker.py: publish_update, mqtt_client.py: publish_presence
\* ------------------------------------------------------------------------
\* a publisher that reports every device at home
PresenceMessage_AlwaysHome(conf, present, rssi, attributes) ==
    [alias |-> conf.alias,
     identifier |-> IF "identifier" \in DOMAIN conf THEN conf.identifier
                    ELSE conf.mac,
     state |-> "home",
     rssi |-> rssi,
     confidence |-> 100,
     room |-> attributes.room,
     distance |-> attributes.distance,
     last_seen |-> attributes.last_seen,
     raw_sources |-> attributes.raw_sources,
     sent |-> TRUE]

\* the two retained messages of one publish_presence call, as one record
PresenceMessage(conf, present, rssi, attributes) ==
    [alias |-> conf.alias,
     identifier |-> IF "identifier" \in DOMAIN conf THEN conf.identifier
                    ELSE conf.mac,
     state |-> IF present THEN "home" ELSE "not_home",
     rssi |-> rssi,
     confidence |-> IF present THEN 100 ELSE 0,
     room |-> attributes.room,
     distance |-> attributes.distance,
     last_seen |-> attributes.last_seen,
     raw_sources |-> attributes.raw_sources,
     sent |-> TRUE]

\* publish_presence: the state update the tracker issues; sent tells whether
\* the client handed it to the broker (it returns at once while it is not
\* connected)
publish_presence(conf, present, rssi, attributes) ==
    <<[PresenceMessage(conf, present, rssi, attributes) EXCEPT !.sent = connected]>>

\* publish_update on the device state st: the state with last_pub stamped,
\* and the messages handed to the broker
publish_update(st, identifier, t) ==
    IF identifier \notin DOMAIN known_devices THEN [st |-> st, msgs |-> <<>>]
    ELSE LET extra == [room |-> st.room,
                       distance |-> st.distance,
                       last_seen |-> st.last_seen,
                       raw_sources |-> [k \in DOMAIN st.sources |-> st.sources[k].raw_rssi]]
         IN  [st |-> [st EXCEPT !.last_pub = t],
              msgs |-> publish_presence(known_devices[identifier], st.present,
                                        IntOf(st.rssi), extra)]

\* a room change that leaves the presence flag as it was
change_room_KeepsPresent(st, identifier, new_room, new_rssi, new_dist, t) ==
    publish_update([st EXCEPT !.room = new_room, !.rssi = new_rssi,
                              !.distance = new_dist],
                   identifier, t)

\* _change_room
change_room(st, identifier, new_room, new_rssi, new_dist, t) ==
    publish_update([st EXCEPT !.room = new_room, !.rssi = new_rssi,
                              !.distance = new_dist, !.present = TRUE],
                   identifier, t)

\* ------------------------------------------------------------------------
\* tracker.py: _evaluate_zone
\* ------------------------------------------------------------------------
\* a source is used while its age is below absence_timeout
IsAlive(data, t) == (t - data.last_seen) < absence_timeout

\* a selection loop that keeps the farthest alive source
RECURSIVE SelectBest_Farthest(_, _, _, _, _)
SelectBest_Farthest(st, t, i, best_sat, min_dist) ==
    IF i > Len(st.order) THEN best_sat
    ELSE LET data == st.sources[st.order[i]]
         IN  IF IsAlive(data, t) /\ (best_sat = None \/ data.distance > min_dist)
             THEN SelectBest_Farthest(st, t, i + 1, st.order[i], data.distance)
             ELSE SelectBest_Farthest(st, t, i + 1, best_sat, min_dist)

\* the loop of step 1 over state['sources'] in insertion order, from index i
RECURSIVE SelectBest(_, _, _, _, _)
SelectBest(st, t, i, best_sat, min_dist) ==
    IF i > Len(st.order) THEN best_sat
    ELSE LET data == st.sources[st.order[i]]
         IN  IF IsAlive(data, t) /\ data.distance < min_dist
             THEN SelectBest(st, t, i + 1, st.order[i], data.distance)
             ELSE SelectBest(st, t, i + 1, best_sat, min_dist)

\* the loop of step 2: closest alive source of the current room
RECURSIVE CurrentRoomMetrics(_, _, _, _, _)
CurrentRoomMetrics(st, t, current_room, i, acc) ==
    IF i > Len(st.order) THEN acc
    ELSE LET data == st.sources[st.order[i]]
         IN  IF IsAlive(data, t) /\ data.room_name = current_room
                /\ data.distance < acc.dist
             THEN CurrentRoomMetrics(st, t, current_room, i + 1,
                                     [dist |-> data.distance, rssi |-> data.smooth_rssi])
             ELSE CurrentRoomMetrics(st, t, current_room, i + 1, acc)

\* a switch test that adds the hysteresis margin where it is subtracted
SwitchInequality_MarginAdded(candidate_dist, current_room_min_dist) ==
    candidate_dist < (current_room_min_dist + hysteresis_dist)

\* a switch test without the hysteresis margin
SwitchInequality_NoMargin(candidate_dist, current_room_min_dist) ==
    candidate_dist < current_room_min_dist

\* the candidate is significantly closer than the current room
SwitchInequality(candidate_dist, current_room_min_dist) ==
    candidate_dist < (current_room_min_dist - hysteresis_dist)

\* a debounce test that any elapsed time passes
DebounceOk_NoWait(z_state, t) == (t - z_state.start) >= 0

\* elapsed >= debounce_time
DebounceOk(z_state, t) == (t - z_state.start) >= debounce_time

\* a decision that restarts the timer at every win of the pending room
DecideZone_Restarts(z_state, candidate_room, candidate_dist, current_room, cur_min, t) ==
    IF SwitchInequality(candidate_dist, cur_min)
    THEN IF z_state.pending_room = candidate_room /\ DebounceOk(z_state, t)
         THEN [z_state EXCEPT !.pending_room = None]
         ELSE [pending_room |-> candidate_room, start |-> t]
    ELSE IF candidate_room = current_room
         THEN [z_state EXCEPT !.pending_room = None]
         ELSE z_state

\* z_state after the decision of step 3
DecideZone(z_state, candidate_room, candidate_dist, current_room, cur_min, t) ==
    IF SwitchInequality(candidate_dist, cur_min)
    THEN IF z_state.pending_room = candidate_room
         THEN IF DebounceOk(z_state, t)
              THEN [z_state EXCEPT !.pending_room = None]
              ELSE z_state
         ELSE [pending_room |-> candidate_room, start |-> t]
    ELSE IF candidate_room = current_room
         THEN [z_state EXCEPT !.pending_room = None]
         ELSE z_state

\* a heartbeat test that is already met at 30 s
HeartbeatDue_AtThirty(st, t) == (t - st.last_pub) >= heartbeat_interval

\* the heartbeat test of step 3
HeartbeatDue(st, t) == (t - st.last_pub) > heartbeat_interval

\* _evaluate_zone on device state st with the zoning map zs:
\* [st, zs, msgs] afterwards
evaluate_zone(st, zs, identifier, t) ==
    LET best_sat == SelectBest(st, t, 1, None, NO_DIST)
    IN  IF best_sat = None THEN [st |-> st, zs |-> zs, msgs |-> <<>>]
        ELSE
        LET cand == st.sources[best_sat]
            current_room == st.room
            zs1 == IF identifier \in DOMAIN zs THEN zs
                   ELSE Put(zs, identifier, [pending_room |-> None, start |-> 0])
            z_state == zs1[identifier]
            cur == CurrentRoomMetrics(st, t, current_room, 1,
                                      [dist |-> NO_DIST, rssi |-> NO_RSSI])
            moved == change_room(st, identifier, cand.room_name,
                                 cand.smooth_rssi, cand.distance, t)
        IN  IF current_room \in {"unknown", "Unassigned", "not_home"}
               /\ cand.room_name # "Unassigned"
            THEN [st |-> moved.st, zs |-> zs1, msgs |-> moved.msgs]
            ELSE IF cur.dist = NO_DIST
            THEN [st |-> moved.st, zs |-> zs1, msgs |-> moved.msgs]
            ELSE
            LET commit == SwitchInequality(cand.distance, cur.dist)
                          /\ z_state.pending_room = cand.room_name
                          /\ DebounceOk(z_state, t)
                z2 == DecideZone(z_state, cand.room_name, cand.distance,
                                 current_room, cur.dist, t)
                r1 == IF commit THEN moved ELSE [st |-> st, msgs |-> <<>>]
                st2 == [r1.st EXCEPT !.rssi = cur.rssi, !.distance = cur.dist]
                r2 == IF r1.st.room # current_room THEN r1
                      ELSE IF HeartbeatDue(st2, t)
                           THEN LET p == publish_update(st2, identifier, t)
                                IN  [st |-> p.st, msgs |-> r1.msgs \o p.msgs]
                           ELSE [st |-> st2, msgs |-> r1.msgs]
            IN  [st |-> r2.st, zs |-> Put(zs1, identifier, z2), msgs |-> r2.msgs]

\* ------------------------------------------------------------------------
\* tracker.py: discovery cache and satellite registration
\* ------------------------------------------------------------------------
Max(a, b) == IF a >= b THEN a ELSE b

\* _update_discovery_cache (the UI-only name / major / minor are left out)
update_discovery_cache(cache, satellite_id, identifier, rssi, t) ==
    LET kept == IF Cardinality(DOMAIN cache) > discovery_cap
                THEN [k \in {x \in DOMAIN cache :
                                ~((t - cache[x].last_seen) > discovery_max_age)}
                        |-> cache[k]]
                ELSE cache
    IN  IF identifier \notin DOMAIN kept
        THEN Put(kept, identifier,
                 [identifier |-> identifier, rssi |-> rssi, last_seen |-> t,
                  sources |-> Put(Empty, satellite_id, rssi)])
        ELSE Put(kept, identifier,
                 [kept[identifier] EXCEPT
                    !.rssi = Max(kept[identifier].rssi, rssi),
                    !.last_seen = t,
                    !.sources = Put(kept[identifier].sources, satellite_id, rssi)])

\* dict.get(key, default) on a satellite record
Get(rec, key, default) == IF key \in DOMAIN rec THEN rec[key] ELSE default

\* a registration that saves on every observation
should_save_Always(store, satellite_id, t) == TRUE

\* _check_satellite_registration: should_save, for the dict `store` that
\* load_satellites returned
should_save(store, satellite_id, t) ==
    \/ satellite_id \notin DOMAIN store
    \/ (t - Get(store[satellite_id], "last_seen", 0)) > save_throttle

\* a registration that files a new satellite without the time it was heard
check_satellite_registration_Unstamped(store, satellite_id, t) ==
    IF satellite_id \notin DOMAIN store
    THEN Put(store, satellite_id, [room |-> "Unassigned", last_seen |-> 0])
    ELSE IF (t - Get(store[satellite_id], "last_seen", 0)) > save_throttle
         THEN Put(store, satellite_id, Put(store[satellite_id], "last_seen", t))
         ELSE store

\* _check_satellite_registration: the dict that load_satellites returned, as
\* it is when line 272 is reached
check_satellite_registration(store, satellite_id, t) ==
    IF satellite_id \notin DOMAIN store
    THEN Put(store, satellite_id, [room |-> "Unassigned", last_seen |-> t])
    ELSE IF (t - Get(store[satellite_id], "last_seen", 0)) > save_throttle
         THEN Put(store, satellite_id, Put(store[satellite_id], "last_seen", t))
         ELSE store

\* ------------------------------------------------------------------------
\* tracker.py: process_remote_packet, steps 5 and 6
\* ------------------------------------------------------------------------
\* the device state created on the first observation of a known device
NewState(identifier) ==
    [identifier |-> identifier, sources |-> Empty, order |-> <<>>,
     present |-> FALSE, room |-> "Unknown", rssi |-> -100 * RssiScale, distance |-> -100,
     last_seen |-> 0, last_pub |-> 0]

\* a room name taken from the store as it is
ActualRoom_Verbatim(store, satellite_id) ==
    IF satellite_id \in DOMAIN store
    THEN Get(store[satellite_id], "room", "Unassigned")
    ELSE "Unassigned"

\* room name under which a satellite's observations are filed
ActualRoom(store, satellite_id) ==
    LET room == IF satellite_id \in DOMAIN store
                THEN Get(store[satellite_id], "room", "Unassigned")
                ELSE "Unassigned"
    IN  IF room = "Unassigned" THEN "Sat:" \o satellite_id ELSE room

\* reference RSSI at 1 m used for a satellite's observations
RefRssi(store, satellite_id) ==
    IF satellite_id \in DOMAIN store
    THEN Get(store[satellite_id], "ref_rssi_1m", default_ref_rssi)
    ELSE default_ref_rssi

\* a source entry that records the smoothed value where the raw one belongs
SourceEntry_StoresSmoothed(rssi, smooth_rssi, dist, t, actual_room) ==
    [raw_rssi |-> IntOf(smooth_rssi), smooth_rssi |-> smooth_rssi,
     distance |-> dist, last_seen |-> t, room_name |-> actual_room]

\* the source entry written for one observation
SourceEntry(rssi, smooth_rssi, dist, t, actual_room) ==
    [raw_rssi |-> rssi, smooth_rssi |-> smooth_rssi, distance |-> dist,
     last_seen |-> t, room_name |-> actual_room]

\* "Update Source Details" without the stamp on the device state
update_source_KeepsLastSeen(st, satellite_id, entry, t) ==
    [st EXCEPT !.sources = Put(st.sources, satellite_id, entry),
               !.order = PutOrder(st.order, satellite_id)]

\* the device state after "Update Source Details"
update_source(st, satellite_id, entry, t) ==
    [st EXCEPT !.sources = Put(st.sources, satellite_id, entry),
               !.order = PutOrder(st.order, satellite_id),
               !.last_seen = t]

\* ------------------------------------------------------------------------
\* Observation of the evaluations (history kept for the properties; the
\* program does not read it)
\* ------------------------------------------------------------------------
Rooms == {"Kitchen", "Bedroom", "Sat:s1", "Sat:s2"}

SeenAlive(st, t) == {s \in DOMAIN st.sources : t - st.sources[s].last_seen < 60}

SeenInRoom(st, t, room) == {s \in SeenAlive(st, t) : st.sources[s].room_name = room}

\* smallest distance among the sources S (S not empty)
SeenMinDist(st, S) ==
    CHOOSE d \in {st.sources[s].distance : s \in S} :
        \A s \in S : d <= st.sources[s].distance

\* the best alive source: smallest distance, the earliest listed on a tie
SeenBest(st, t) ==
    LET m == SeenMinDist(st, SeenAlive(st, t))
        i == CHOOSE j \in 1..Len(st.order) :
                /\ st.order[j] \in SeenAlive(st, t)
                /\ st.sources[st.order[j]].distance = m
                /\ \A k \in 1..(j - 1) :
                      ~(st.order[k] \in SeenAlive(st, t)
                        /\ st.sources[st.order[k]].distance = m)
    IN  st.order[i]

\* the room that satisfies the switch inequality in an evaluation at t of a
\* device with sources st.sources that is in `room` (None when that room has
\* no alive source or nobody leads by 0.8 m)
SeenLeader(st, room, t) ==
    IF SeenAlive(st, t) = {} \/ SeenInRoom(st, t, room) = {} THEN None
    ELSE LET b == st.sources[SeenBest(st, t)]
         IN  IF b.distance + 80 < SeenMinDist(st, SeenInRoom(st, t, room))
             THEN b.room_name ELSE None

NoHist ==
    [lead_room |-> None, lead_since |-> 0, lead_evals |-> 0,
     first_lead |-> [r \in Rooms |-> -1],
     last_nonlead |-> [r \in Rooms |-> -1]]

\* the history after an evaluation of st (the state it starts from) at t
HistAfterEval(h, st, t) ==
    LET leader == SeenLeader(st, st.room, t)
    IN  [lead_room |-> leader,
         lead_since |-> IF leader = None THEN 0
                        ELSE IF h.lead_room = leader THEN h.lead_since ELSE t,
         lead_evals |-> IF leader = None THEN 0
                        ELSE IF h.lead_room = leader THEN h.lead_evals + 1 ELSE 1,
         first_lead |-> [r \in Rooms |->
                           IF r = leader /\ h.first_lead[r] = -1 THEN t
                           ELSE h.first_lead[r]],
         last_nonlead |-> [r \in Rooms |->
                             IF r # leader THEN t ELSE h.last_nonlead[r]]]

\* what a handler starts from, for one device
PreOf(cs, zs, identifier) ==
    LET st == IF identifier \in DOMAIN cs THEN cs[identifier] ELSE NewState(identifier)
        z == IF identifier \in DOMAIN zs THEN zs[identifier]
             ELSE [pending_room |-> None, start |-> 0]
    IN  [created |-> identifier \notin DOMAIN cs,
         room |-> st.room, present |-> st.present, last_pub |-> st.last_pub,
         pending_room |-> z.pending_room, start |-> z.start]

Idle == [op |-> "none", sat |-> None, identifier |-> None, rssi |-> 0,
         known |-> FALSE, evaluated |-> {}, pre |-> Empty]

\* ------------------------------------------------------------------------
\* Handlers
\* ------------------------------------------------------------------------
\* save_log after a registration that loaded `loaded`
LogSave(loaded, satellite_id, t) ==
    LET before == Get(save_log, satellite_id, <<>>)
    IN  IF should_save(loaded, satellite_id, t)
        THEN Put(save_log, satellite_id,
                 IF before = <<>> THEN <<t>> ELSE <<before[Len(before)], t>>)
        ELSE save_log

\* satellites.json after a registration that loaded `loaded`: save_satellites
\* writes the whole loaded dict
SavedBy(loaded, satellite_id, t) ==
    IF should_save(loaded, satellite_id, t)
    THEN check_satellite_registration(loaded, satellite_id, t)
    ELSE satellites

\* a filter that lets every identifier through
KnownDevice_Always(identifier) == TRUE

\* step 4 of process_remote_packet: identifier in self.known_devices
KnownDevice(identifier) == identifier \in DOMAIN known_devices

\* process_remote_packet(satellite_id, identifier, rssi), where `loaded` is
\* what load_satellites returned to the registration (line 258)
IngestWith(satellite_id, raw_identifier, rssi, loaded) ==
    LET identifier == Upper(raw_identifier)
        known == KnownDevice(identifier)
        store == SavedBy(loaded, satellite_id, now)
        st0 == IF identifier \in DOMAIN current_state
               THEN current_state[identifier] ELSE NewState(identifier)
        buf_key == <<satellite_id, identifier>>
        buf0 == IF buf_key \in DOMAIN signal_buffers
                THEN signal_buffers[buf_key] ELSE NewBuffer
        buf == add_sample(buf0, rssi)
        dist == calculate_distance(buf.ema_value, RefRssi(store, satellite_id))
        st1 == update_source(st0, satellite_id,
                             SourceEntry(rssi, buf.ema_value, dist, now,
                                         ActualRoom(store, satellite_id)),
                             now)
        ev == evaluate_zone(st1, zoning_state, identifier, now)
    IN  /\ last_sat_signals' = Put(last_sat_signals, satellite_id,
                                   [rssi |-> rssi, time |-> now])
        /\ discovery_cache' = update_discovery_cache(discovery_cache, satellite_id,
                                                     identifier, rssi, now)
        /\ satellites' = store
        /\ save_log' = LogSave(loaded, satellite_id, now)
        /\ UNCHANGED satellite_stats
        /\ IF ~known
           THEN /\ UNCHANGED <<current_state, zoning_state, signal_buffers, hist>>
                /\ outbox' = <<>>
                /\ obs' = [Idle EXCEPT !.op = "ingest", !.sat = satellite_id,
                                       !.identifier = identifier, !.rssi = rssi]
           ELSE /\ signal_buffers' = Put(signal_buffers, buf_key, buf)
                /\ current_state' = Put(current_state, identifier, ev.st)
                /\ zoning_state' = ev.zs
                /\ outbox' = ev.msgs
                /\ hist' = Put(hist, identifier,
                               HistAfterEval(IF identifier \in DOMAIN hist
                                             THEN hist[identifier] ELSE NoHist,
                                             st1, now))
                /\ obs' = [op |-> "ingest", sat |-> satellite_id,
                           identifier |-> identifier, rssi |-> rssi, known |-> TRUE,
                           evaluated |-> {identifier},
                           pre |-> Put(Empty, identifier,
                                       PreOf(current_state, zoning_state, identifier))]
        /\ UNCHANGED <<now, connected, devices_file, settings_file, known_devices,
                       timeout_interval, reload, env, interrupted, calib_vars,
                       broker_vars>>

\* process_remote_packet(satellite_id, identifier, rssi)
Ingest(satellite_id, raw_identifier, rssi) ==
    /\ IngestWith(satellite_id, raw_identifier, rssi, satellites)
    /\ UNCHANGED <<race_vars, loop_vars>>

\* the event loop is not inside a registration
NotInFlight ==
    [pc |-> "idle", sat |-> None, identifier |-> None, rssi |-> 0, loaded |-> Empty]

\* process_remote_packet up to the load_satellites of the registration
\* (line 258): the handler holds the dict it loaded
RegistrationLoad(satellite_id, raw_identifier, rssi) ==
    /\ inflight.pc = "idle"
    /\ inflight' = [pc |-> "loaded", sat |-> satellite_id,
                    identifier |-> raw_identifier, rssi |-> rssi,
                    loaded |-> satellites]
    /\ outbox' = <<>>
    /\ obs' = Idle
    /\ UNCHANGED <<now, connected, devices_file, settings_file, satellites,
                   known_devices, timeout_interval, reload, current_state,
                   zoning_state, signal_buffers, discovery_cache,
                   last_sat_signals, hist, env, satellite_stats, save_log,
                   admin, admin_wrote, interrupted, service_vars>>

\* process_remote_packet from line 260 on: the registration decides and
\* saves the dict it holds, and the handler runs to its end
RegistrationSave ==
    /\ inflight.pc = "loaded"
    /\ IngestWith(inflight.sat, inflight.identifier, inflight.rssi, inflight.loaded)
    /\ inflight' = NotInFlight
    /\ UNCHANGED <<admin, admin_wrote, loop_vars>>

\* process_satellite_health(satellite_id, sensor_name, value), where `loaded`
\* is what load_satellites returned to the registration (line 258)
HealthWith(satellite_id, sensor_name, value, loaded) ==
    /\ satellite_stats' =
          Put(satellite_stats, satellite_id,
              Put(Put(Get(satellite_stats, satellite_id, Empty), sensor_name, value),
                  "last_health_update", now))
    /\ satellites' = SavedBy(loaded, satellite_id, now)
    /\ save_log' = LogSave(loaded, satellite_id, now)
    /\ outbox' = <<>>
    /\ obs' = [Idle EXCEPT !.op = "health", !.sat = satellite_id]
    /\ UNCHANGED <<now, connected, devices_file, settings_file, known_devices,
                   timeout_interval, reload, current_state, zoning_state,
                   signal_buffers, discovery_cache, last_sat_signals, hist, env,
                   interrupted, service_vars>>

\* process_satellite_health(satellite_id, sensor_name, value)
Health(satellite_id, sensor_name, value) ==
    /\ HealthWith(satellite_id, sensor_name, value, satellites)
    /\ UNCHANGED race_vars

\* a departure test against the source absence timeout
TimedOut_AbsenceTimeout(st, t) == (t - st.last_seen) > absence_timeout

\* now - last_seen > timeout_interval
TimedOut(st, t) == (t - st.last_seen) > timeout_interval

\* a room_alive loop that accepts an alive source of any room
RoomAlive_AnyRoom(st, t) ==
    \E sat \in DOMAIN st.sources :
        (t - st.sources[sat].last_seen) < absence_timeout

\* the room_alive loop of maintenance_loop
RoomAlive(st, t) ==
    \E sat \in DOMAIN st.sources :
        st.sources[sat].room_name = st.room
        /\ (t - st.sources[sat].last_seen) < absence_timeout

\* a departure that leaves the room as it was
Depart_KeepsRoom(st) == [st EXCEPT !.present = FALSE, !.distance = -100]

\* a departure that leaves the distance as it was
Depart_KeepsDistance(st) == [st EXCEPT !.present = FALSE, !.room = "not_home"]

\* the state written on a departure
Depart(st) == [st EXCEPT !.present = FALSE, !.room = "not_home", !.distance = -100]

\* one device of one maintenance sweep: [st, zs, msgs, evaluated]
sweep_device(st, zs, identifier, t) ==
    IF ~st.present THEN [st |-> st, zs |-> zs, msgs |-> <<>>, evaluated |-> FALSE]
    ELSE IF TimedOut(st, t)
    THEN LET p == publish_update(Depart(st), identifier, t)
         IN  [st |-> p.st, zs |-> zs, msgs |-> p.msgs, evaluated |-> FALSE]
    ELSE IF ~RoomAlive(st, t)
    THEN LET ev == evaluate_zone(st, zs, identifier, t)
         IN  [st |-> ev.st, zs |-> ev.zs, msgs |-> ev.msgs, evaluated |-> TRUE]
    ELSE [st |-> st, zs |-> zs, msgs |-> <<>>, evaluated |-> FALSE]

RECURSIVE SetToSeq(_)
SetToSeq(S) ==
    IF S = {} THEN <<>>
    ELSE LET x == CHOOSE y \in S : TRUE IN <<x>> \o SetToSeq(S \ {x})

\* the for loop of one sweep over list(current_state.items())
RECURSIVE sweep(_, _, _)
sweep(ids, acc, t) ==
    IF ids = <<>> THEN acc
    ELSE LET identifier == Head(ids)
             r == sweep_device(acc.cs[identifier], acc.zs, identifier, t)
         IN  sweep(Tail(ids),
                   [cs |-> Put(acc.cs, identifier, r.st), zs |-> r.zs,
                    msgs |-> acc.msgs \o r.msgs,
                    evaluated |-> IF r.evaluated THEN acc.evaluated \cup {identifier}
                                  ELSE acc.evaluated],
                   t)

\* one iteration of maintenance_loop
Tick ==
    LET r == sweep(SetToSeq(DOMAIN current_state),
                   [cs |-> current_state, zs |-> zoning_state, msgs |-> <<>>,
                    evaluated |-> {}],
                   now)
    IN  /\ current_state' = r.cs
        /\ zoning_state' = r.zs
        /\ outbox' = r.msgs
        /\ hist' = [i \in DOMAIN hist |->
                      IF i \in r.evaluated
                      THEN HistAfterEval(hist[i], current_state[i], now)
                      ELSE hist[i]]
        /\ obs' = [Idle EXCEPT !.op = "tick", !.evaluated = r.evaluated,
                               !.pre = [i \in DOMAIN current_state |->
                                          PreOf(current_state, zoning_state, i)]]
        /\ UNCHANGED <<now, connected, devices_file, settings_file, satellites,
                       known_devices, timeout_interval, reload, signal_buffers,
                       discovery_cache, last_sat_signals, env, registry_vars, service_vars>>

\* time passes to a later instant of the schedule
Advance ==
    /\ \E t \in env.schedule : t > now /\ now' = t
    /\ outbox' = <<>>
    /\ obs' = Idle
    /\ UNCHANGED <<connected, devices_file, settings_file, satellites, known_devices,
                   timeout_interval, reload, current_state, zoning_state,
                   signal_buffers, discovery_cache, last_sat_signals, hist, env, registry_vars, service_vars>>

\* _on_connect (rc = 0) and _on_disconnect, on the bus thread
SetConnected(b) ==
    /\ connected # b
    /\ connected' = b
    /\ outbox' = <<>>
    /\ obs' = Idle
    /\ UNCHANGED <<now, devices_file, settings_file, satellites, known_devices,
                   timeout_interval, reload, current_state, zoning_state,
                   signal_buffers, discovery_cache, last_sat_signals, hist, env, registry_vars, service_vars>>

\* ------------------------------------------------------------------------
\* Admin thread: device list and preferences, each followed by reload_config
\* ------------------------------------------------------------------------
\* admin requests one run of the model issues
MaxAdminOps == 1

DeviceLists == {<<>>, <<DeviceAA>>}

\* add_device / delete_device: save_devices, then reload_config up to
\* "self.known_devices = {}"
AdminSaveDevices(devices) ==
    /\ reload.pc = "idle"
    /\ reload.ops < MaxAdminOps
    /\ devices # devices_file
    /\ devices_file' = devices
    /\ known_devices' = Empty
    /\ reload' = [pc |-> "fill", todo |-> devices, ops |-> reload.ops + 1]
    /\ outbox' = <<>>
    /\ obs' = Idle
    /\ UNCHANGED <<now, connected, settings_file, satellites, timeout_interval,
                   current_state, zoning_state, signal_buffers, discovery_cache,
                   last_sat_signals, hist, env, registry_vars, service_vars>>

\* save_preferences: save_settings, then reload_config up to
\* "self.known_devices = {}"
AdminSavePreferences(expiration) ==
    /\ reload.pc = "idle"
    /\ reload.ops < MaxAdminOps
    /\ expiration # settings_file
    /\ settings_file' = expiration
    /\ known_devices' = Empty
    /\ reload' = [pc |-> "fill", todo |-> devices_file, ops |-> reload.ops + 1]
    /\ outbox' = <<>>
    /\ obs' = Idle
    /\ UNCHANGED <<now, connected, devices_file, satellites, timeout_interval,
                   current_state, zoning_state, signal_buffers, discovery_cache,
                   last_sat_signals, hist, env, registry_vars, service_vars>>

\* reload_config: one pass of "for d in devices"
ReloadAdd ==
    /\ reload.pc = "fill"
    /\ reload.todo # <<>>
    /\ known_devices' = Put(known_devices, DeviceKey(Head(reload.todo)),
                            Head(reload.todo))
    /\ reload' = [reload EXCEPT !.todo = Tail(reload.todo)]
    /\ outbox' = <<>>
    /\ obs' = Idle
    /\ UNCHANGED <<now, connected, devices_file, settings_file, satellites,
                   timeout_interval, current_state, zoning_state, signal_buffers,
                   discovery_cache, last_sat_signals, hist, env, registry_vars, service_vars>>

\* reload_config: load_settings and the timeout_interval assignment
ReloadSettings ==
    /\ reload.pc = "fill"
    /\ reload.todo = <<>>
    /\ timeout_interval' = settings_file
    /\ reload' = [reload EXCEPT !.pc = "idle"]
    /\ outbox' = <<>>
    /\ obs' = Idle
    /\ UNCHANGED <<now, connected, devices_file, settings_file, satellites,
                   known_devices, current_state, zoning_state, signal_buffers,
                   discovery_cache, last_sat_signals, hist, env, registry_vars, service_vars>>

\* ------------------------------------------------------------------------
\* Admin thread: update_satellite and update_satellite_ref
\* ------------------------------------------------------------------------
\* the fields of a satellite record that only the admin writes
AdminFields(rec) ==
    [k \in DOMAIN rec \cap {"room", "x", "y", "ref_rssi_1m"} |-> rec[k]]

\* the record with the fields of `change` assigned
Assign(rec, change) ==
    [k \in DOMAIN rec \cup DOMAIN change |->
        IF k \in DOMAIN change THEN change[k] ELSE rec[k]]

\* the form of update_satellite for one satellite: room, x, y
RoomForm == [room |-> "Office", x |-> 1, y |-> 2]

\* the form of update_satellite_ref: ref_rssi
RefForm == [ref_rssi_1m |-> -55]

\* update_satellite / update_satellite_ref up to load_satellites
AdminLoadSatellites(sid, change) ==
    /\ admin.pc = "idle"
    /\ admin.ops < MaxAdminOps
    /\ admin' = [pc |-> "loaded", sid |-> sid, change |-> change,
                 loaded |-> satellites, ops |-> admin.ops + 1]
    /\ outbox' = <<>>
    /\ obs' = Idle
    /\ UNCHANGED <<now, connected, devices_file, settings_file, satellites,
                   known_devices, timeout_interval, reload, current_state,
                   zoning_state, signal_buffers, discovery_cache,
                   last_sat_signals, hist, env, satellite_stats, save_log,
                   inflight, admin_wrote, interrupted, service_vars>>

\* update_satellite / update_satellite_ref from the loop over the loaded
\* dict to save_satellites (nothing is saved for a satellite that is not in
\* the loaded dict)
AdminSaveSatellites ==
    /\ admin.pc = "loaded"
    /\ admin' = [admin EXCEPT !.pc = "idle", !.loaded = Empty]
    /\ IF admin.sid \in DOMAIN admin.loaded
       THEN LET rec == Assign(admin.loaded[admin.sid], admin.change)
            IN  /\ satellites' = Put(admin.loaded, admin.sid, rec)
                /\ admin_wrote' = Put(admin_wrote, admin.sid, AdminFields(rec))
       ELSE UNCHANGED <<satellites, admin_wrote>>
    /\ outbox' = <<>>
    /\ obs' = Idle
    /\ UNCHANGED <<now, connected, devices_file, settings_file, known_devices,
                   timeout_interval, reload, current_state, zoning_state,
                   signal_buffers, discovery_cache, last_sat_signals, hist, env,
                   satellite_stats, save_log, inflight, interrupted, service_vars>>

\* ------------------------------------------------------------------------
\* config_mgr.py: a save that does not complete, and a restart
\* ------------------------------------------------------------------------
NoneInterrupted == [file |-> None, prev |-> None, new |-> None]

\* what the load of a file returns once open(file, 'w') has truncated it and
\* json.dump has not completed: json.load raises, and load_devices returns
\* [], load_satellites {} and load_settings its defaults
\* (PREF_BEACON_EXPIRATION 60)
Truncated(file) ==
    CASE file = "devices" -> <<>>
      [] file = "satellites" -> Empty
      [] file = "settings" -> 60

\* what a load of the file returns
Content(file) ==
    CASE file = "devices" -> devices_file
      [] file = "satellites" -> satellites
      [] file = "settings" -> settings_file

\* a second device the admin adds
DeviceBB == [identifier |-> "BB:02", identifier_type |-> "mac", alias |-> "Watch"]

\* add_device: save_devices(devices) stops after open(..., 'w') (the error is
\* logged, lines 45-46), then reload_config up to "self.known_devices = {}"
SaveDevicesFails(devices) ==
    /\ reload.pc = "idle"
    /\ reload.ops < MaxAdminOps
    /\ devices # devices_file
    /\ devices_file' = Truncated("devices")
    /\ interrupted' = [file |-> "devices", prev |-> devices_file, new |-> devices]
    /\ known_devices' = Empty
    /\ reload' = [pc |-> "fill", todo |-> Truncated("devices"), ops |-> reload.ops + 1]
    /\ outbox' = <<>>
    /\ obs' = [Idle EXCEPT !.op = "save_failed"]
    /\ UNCHANGED <<now, connected, settings_file, satellites, timeout_interval,
                   current_state, zoning_state, signal_buffers, discovery_cache,
                   last_sat_signals, hist, env, satellite_stats, save_log,
                   race_vars, service_vars>>

\* save_preferences: save_settings stops after open(..., 'w'), then
\* reload_config up to "self.known_devices = {}"
SaveSettingsFails(expiration) ==
    /\ reload.pc = "idle"
    /\ reload.ops < MaxAdminOps
    /\ expiration # settings_file
    /\ settings_file' = Truncated("settings")
    /\ interrupted' = [file |-> "settings", prev |-> settings_file, new |-> expiration]
    /\ known_devices' = Empty
    /\ reload' = [pc |-> "fill", todo |-> devices_file, ops |-> reload.ops + 1]
    /\ outbox' = <<>>
    /\ obs' = [Idle EXCEPT !.op = "save_failed"]
    /\ UNCHANGED <<now, connected, devices_file, satellites, timeout_interval,
                   current_state, zoning_state, signal_buffers, discovery_cache,
                   last_sat_signals, hist, env, satellite_stats, save_log,
                   race_vars, service_vars>>

\* update_satellite / update_satellite_ref: save_satellites stops after
\* open(..., 'w')
SaveSatellitesFails ==
    /\ admin.pc = "loaded"
    /\ admin.sid \in DOMAIN admin.loaded
    /\ admin' = [admin EXCEPT !.pc = "idle", !.loaded = Empty]
    /\ satellites' = Truncated("satellites")
    /\ interrupted' =
          [file |-> "satellites", prev |-> satellites,
           new |-> Put(admin.loaded, admin.sid,
                       Assign(admin.loaded[admin.sid], admin.change))]
    /\ outbox' = <<>>
    /\ obs' = [Idle EXCEPT !.op = "save_failed"]
    /\ UNCHANGED <<now, connected, devices_file, settings_file, known_devices,
                   timeout_interval, reload, current_state, zoning_state,
                   signal_buffers, discovery_cache, last_sat_signals, hist, env,
                   satellite_stats, save_log, inflight, admin_wrote, service_vars>>

\* ------------------------------------------------------------------------
\* Bus thread and radio thread: the hand-over to the event loop
\* ------------------------------------------------------------------------
\* nothing run yet
NoneRan == [sat |-> None, identifier |-> None, rssi |-> 0, seq |-> 0]

\* the coroutines of the pair that wait in the queue
Waiting(satellite_id, raw_identifier) ==
    {n \in 1..Len(loop_ready) :
        /\ loop_ready[n].sat = satellite_id
        /\ Upper(loop_ready[n].identifier) = Upper(raw_identifier)}

\* the pair's buffer and queue are still within the sample budget of the model
QueueInBudget(satellite_id, raw_identifier) ==
    LET buf_key == <<satellite_id, Upper(raw_identifier)>>
        held == IF buf_key \in DOMAIN signal_buffers
                THEN Len(signal_buffers[buf_key].history) ELSE 0
    IN  held + Cardinality(Waiting(satellite_id, raw_identifier)) < MaxSamples

\* asyncio.run_coroutine_threadsafe(callback(...), loop): the coroutine is
\* appended to the loop's queue (call_soon_threadsafe)
Submit(satellite_id, raw_identifier, rssi) ==
    /\ QueueInBudget(satellite_id, raw_identifier)
    /\ loop_ready' = Append(loop_ready,
                            [sat |-> satellite_id, identifier |-> raw_identifier,
                             rssi |-> rssi, seq |-> arrived + 1])
    /\ arrived' = arrived + 1
    /\ outbox' = <<>>
    /\ obs' = Idle
    /\ UNCHANGED <<now, connected, devices_file, settings_file, satellites,
                   known_devices, timeout_interval, reload, current_state,
                   zoning_state, signal_buffers, discovery_cache,
                   last_sat_signals, hist, env, registry_vars, calib_vars,
                   broker_vars, ran>>

\* _on_message on the bus thread: a satellite's observation is dispatched
DispatchBus ==
    \E sat \in env.sats, i \in env.ids, r \in env.rssi : Submit(sat, i, r)

\* parse_le_advertising_report on the radio worker thread: the hub's own
\* observation is dispatched to process_packet
DispatchRadio ==
    \E i \in env.ids, r \in env.rssi : Submit("gatekeeper-hub", Upper(i), r)

\* a loop that runs the coroutine submitted last
Scheduled_Newest(queue) == Len(queue)

\* the position in the queue of the coroutine the loop runs next: the loop
\* takes its callbacks from the front
Scheduled(queue) == 1

\* the event loop runs the next coroutine: process_remote_packet has no
\* suspension point and runs to its end
RunNext ==
    /\ loop_ready # <<>>
    /\ LET k == Scheduled(loop_ready)
           e == loop_ready[k]
       IN  /\ IngestWith(e.sat, e.identifier, e.rssi, satellites)
           /\ loop_ready' = SubSeq(loop_ready, 1, k - 1)
                               \o SubSeq(loop_ready, k + 1, Len(loop_ready))
           /\ ran' = e
    /\ UNCHANGED <<race_vars, arrived>>

\* ------------------------------------------------------------------------
\* mqtt_client.py: publish_discovery
\* ------------------------------------------------------------------------
\* An alias is a sequence of characters here, a topic a sequence of the
\* pieces it is formatted from, a payload the "name" of the config document
\* it carries, or "" for the empty payload.

\* str.lower() on one character
LowerChar(c) == IF c = "A" THEN "a" ELSE IF c = "B" THEN "b" ELSE c

\* alias.replace(old, new)
Replace(alias, old, new) ==
    [i \in 1..Len(alias) |-> IF alias[i] = old THEN new ELSE alias[i]]

\* alias.replace(' ', '_') of line 195
old_safe(alias) == Replace(alias, " ", "_")

\* alias.replace(' ', '_').replace('-', '_').lower() of line 204
safe_alias(alias) ==
    LET replaced == Replace(Replace(alias, " ", "_"), "-", "_")
    IN  [i \in 1..Len(replaced) |-> LowerChar(replaced[i])]

\* f"homeassistant/{component}/gk_{identity}_{node}/config"
TrackerTopic(node) ==
    <<"homeassistant/device_tracker/gk_gatekeeper_">> \o node \o <<"/config">>

\* f"homeassistant/sensor/gk_{identity}_{node}_{s}/config"
SensorTopic(node, sensor) ==
    <<"homeassistant/sensor/gk_gatekeeper_">> \o node \o <<"_", sensor, "/config">>

\* one client.publish(topic, payload, retain=True), made for device number k
\* of the list (0: for the hub)
Publish(topic, payload, k) == [topic |-> topic, payload |-> payload, device |-> k]

\* lines 168-188: the hub's config and its status
HubMessages ==
    <<Publish(<<"homeassistant/binary_sensor/gk_gatekeeper_hub/config">>, "Status", 0),
      Publish(<<"monitor/gatekeeper/status">>, "online", 0)>>

\* a loop body that clears the lower-cased tracker topic after it has
\* written the new configs
DeviceMessages_ClearsLast(d, k) ==
    LET old_node == old_safe(d.alias)
        node_id == safe_alias(d.alias)
    IN  <<Publish(TrackerTopic(old_node), "", k),
          Publish(SensorTopic(old_node, "room"), "", k),
          Publish(SensorTopic(old_node, "distance"), "", k),
          Publish(SensorTopic(old_node, "rssi"), "", k),
          Publish(TrackerTopic(node_id), "Presence", k),
          Publish(SensorTopic(node_id, "room"), "Room", k),
          Publish(SensorTopic(node_id, "distance"), "Distance", k),
          Publish(SensorTopic(node_id, "rssi"), "RSSI", k),
          Publish(TrackerTopic(node_id), "", k)>>

\* lines 190-283: the body of "for d in devices"
DeviceMessages(d, k) ==
    LET old_node == old_safe(d.alias)
        node_id == safe_alias(d.alias)
    IN  <<Publish(TrackerTopic(old_node), "", k),
          Publish(SensorTopic(old_node, "room"), "", k),
          Publish(SensorTopic(old_node, "distance"), "", k),
          Publish(SensorTopic(old_node, "rssi"), "", k),
          Publish(TrackerTopic(node_id), "", k),
          Publish(TrackerTopic(node_id), "Presence", k),
          Publish(SensorTopic(node_id, "room"), "Room", k),
          Publish(SensorTopic(node_id, "distance"), "Distance", k),
          Publish(SensorTopic(node_id, "rssi"), "RSSI", k)>>

\* the messages of devices k, k + 1, ... of the list
RECURSIVE MessagesFrom(_, _)
MessagesFrom(devices, k) ==
    IF k > Len(devices) THEN <<>>
    ELSE DeviceMessages(devices[k], k) \o MessagesFrom(devices, k + 1)

\* publish_discovery(devices): the messages it hands to the client
publish_discovery(devices) ==
    IF ~connected THEN <<>> ELSE HubMessages \o MessagesFrom(devices, 1)

\* the broker after it has received the messages, all of them retained
RECURSIVE Retain(_, _)
Retain(store, msgs) ==
    IF msgs = <<>> THEN store
    ELSE Retain(Put(store, Head(msgs).topic, Head(msgs).payload), Tail(msgs))

\* CoreService.run (line 44) and announce_devices: publish_discovery with the
\* devices of devices.json
PublishDiscovery ==
    /\ discovery_log' = publish_discovery(devices_file)
    /\ retained' = Retain(retained, publish_discovery(devices_file))
    /\ outbox' = <<>>
    /\ obs' = [Idle EXCEPT !.op = "discovery"]
    /\ UNCHANGED <<now, connected, devices_file, settings_file, satellites,
                   known_devices, timeout_interval, reload, current_state,
                   zoning_state, signal_buffers, discovery_cache,
                   last_sat_signals, hist, env, registry_vars, calib_vars,
                   loop_vars>>

\* ------------------------------------------------------------------------
\* Admin thread: bluetooth_clear
\* ------------------------------------------------------------------------
\* bluetooth_clear: tracker.clear_discovery_cache(), called on the thread of
\* the HTTP request
BluetoothClear ==
    /\ discovery_cache' = Empty
    /\ outbox' = <<>>
    /\ obs' = [Idle EXCEPT !.op = "bluetooth_clear"]
    /\ UNCHANGED <<now, connected, devices_file, settings_file, satellites,
                   known_devices, timeout_interval, reload, current_state,
                   zoning_state, signal_buffers, last_sat_signals, hist, env,
                   registry_vars, service_vars>>

\* ------------------------------------------------------------------------
\* Admin thread: calibrate_satellite
\* ------------------------------------------------------------------------
\* calibration sessions one run of the model starts
MaxStarts == 2

\* readings one session of the model collects
MaxReadings == 31

\* the window of readings the stability test looks at
stability_window == 30

\* no request answered yet
NoReply == [kind |-> "none"]

RECURSIVE SumOf(_)
SumOf(xs) == IF xs = <<>> THEN 0 ELSE Head(xs) + SumOf(Tail(xs))

RECURSIVE SumSq(_)
SumSq(xs) == IF xs = <<>> THEN 0 ELSE Head(xs) * Head(xs) + SumSq(Tail(xs))

\* readings[-30:]
LastWindow(readings) ==
    IF Len(readings) <= stability_window THEN readings
    ELSE SubSeq(readings, Len(readings) - stability_window + 1, Len(readings))

\* statistics.stdev(xs) < 2.0: the sample variance
\* (n * sum(x^2) - sum(x)^2) / (n * (n - 1)) is below 4
StdevBelowTwo(xs) ==
    Len(xs) * SumSq(xs) - SumOf(xs) * SumOf(xs) < 4 * Len(xs) * (Len(xs) - 1)

\* a stability test that accepts an elapsed time of exactly 15 s
is_stable_AtFifteen(readings, elapsed) ==
    \/ /\ Len(readings) >= stability_window
       /\ StdevBelowTwo(LastWindow(readings))
       /\ elapsed >= 15
    \/ elapsed >= 45

\* a stability test without the 45 s limit
is_stable_NoTimeout(readings, elapsed) ==
    /\ Len(readings) >= stability_window
    /\ StdevBelowTwo(LastWindow(readings))
    /\ elapsed > 15

\* is_stable of lines 547-557
is_stable(readings, elapsed) ==
    \/ /\ Len(readings) >= stability_window
       /\ StdevBelowTwo(LastWindow(readings))
       /\ elapsed > 15
    \/ elapsed >= 45

\* progress of lines 559-560
progress(readings, elapsed) ==
    IF is_stable(readings, elapsed) THEN 100
    ELSE IF (elapsed * 100) \div 25 < 99 THEN (elapsed * 100) \div 25 ELSE 99

\* avg_rssi of lines 562-570, as the fraction sum / count it is computed from
avg_rssi(readings, elapsed) ==
    LET count == Len(readings)
        vals == Sorted(readings)
        trim == IF count \div 10 > 1 THEN count \div 10 ELSE 1
        trimmed_vals == SubSeq(vals, trim + 1, count - trim)
    IN  IF progress(readings, elapsed) = 100 /\ count > 10
        THEN IF trimmed_vals # <<>>
             THEN [sum |-> SumOf(trimmed_vals), count |-> Len(trimmed_vals)]
             ELSE [sum |-> -100, count |-> 1]
        ELSE IF count > 0 THEN [sum |-> SumOf(readings), count |-> count]
        ELSE [sum |-> -100, count |-> 1]

\* a status request that appends the satellite's last sample whatever its age
FreshSample_AnyAge(sid) ==
    IF sid \in DOMAIN last_sat_signals
    THEN <<last_sat_signals[sid].rssi>> ELSE <<>>

\* the sample a status request appends: the satellite's entry of
\* last_sat_signals if it is less than 10 s old
FreshSample(sid) ==
    IF sid \in DOMAIN last_sat_signals /\ (now - last_sat_signals[sid].time) < 10
    THEN <<last_sat_signals[sid].rssi>> ELSE <<>>

\* calibrate_satellite, action=start
CalibrateStart(sid) ==
    /\ calib_starts < MaxStarts
    /\ calib_sessions' = Put(calib_sessions, sid, [start |-> now, readings |-> <<>>])
    /\ reply' = [kind |-> "started", satellite |-> sid]
    /\ calib_starts' = calib_starts + 1
    /\ outbox' = <<>>
    /\ obs' = [Idle EXCEPT !.op = "calibrate_start", !.sat = sid]
    /\ UNCHANGED <<now, connected, devices_file, settings_file, satellites,
                   known_devices, timeout_interval, reload, current_state,
                   zoning_state, signal_buffers, discovery_cache,
                   last_sat_signals, hist, env, registry_vars, broker_vars,
                   loop_vars>>

\* calibrate_satellite, action=status
CalibrateStatus(sid) ==
    /\ IF sid \notin DOMAIN calib_sessions
       THEN /\ reply' = [kind |-> "error", error |-> "No session"]
            /\ UNCHANGED calib_sessions
       ELSE LET session == calib_sessions[sid]
                elapsed == now - session.start
                readings == session.readings \o FreshSample(sid)
            IN  /\ Len(readings) <= MaxReadings
                /\ calib_sessions' =
                      Put(calib_sessions, sid, [session EXCEPT !.readings = readings])
                /\ reply' = [kind |-> "status",
                             progress |-> progress(readings, elapsed),
                             last_rssi |-> IF FreshSample(sid) = <<>> THEN None
                                           ELSE FreshSample(sid)[1],
                             avg_rssi |-> avg_rssi(readings, elapsed),
                             count |-> Len(readings),
                             stable |-> is_stable(readings, elapsed)]
    /\ outbox' = <<>>
    /\ obs' = [Idle EXCEPT !.op = "calibrate_status", !.sat = sid]
    /\ UNCHANGED <<now, connected, devices_file, settings_file, satellites,
                   known_devices, timeout_interval, reload, current_state,
                   zoning_state, signal_buffers, discovery_cache,
                   last_sat_signals, hist, env, registry_vars, calib_starts,
                   broker_vars, loop_vars>>

\* the process is started again: DeviceTracker.__init__ with the files as
\* they are
Restart ==
    /\ obs.op # "restart"
    /\ known_devices' = LoadKnown(devices_file, Empty)
    /\ timeout_interval' = settings_file
    /\ reload' = [reload EXCEPT !.pc = "idle", !.todo = <<>>]
    /\ admin' = [admin EXCEPT !.pc = "idle", !.loaded = Empty]
    /\ inflight' = NotInFlight
    /\ current_state' = Empty
    /\ zoning_state' = Empty
    /\ signal_buffers' = Empty
    /\ discovery_cache' = Empty
    /\ last_sat_signals' = Empty
    /\ satellite_stats' = Empty
    /\ hist' = Empty
    /\ outbox' = <<>>
    /\ obs' = [Idle EXCEPT !.op = "restart"]
    /\ calib_sessions' = Empty
    /\ reply' = NoReply
    /\ loop_ready' = <<>>
    /\ UNCHANGED <<now, connected, devices_file, settings_file, satellites, env,
                   save_log, admin_wrote, interrupted, calib_starts, broker_vars,
                   arrived, ran>>

\* ------------------------------------------------------------------------
\* The tracker after construction, and its steps
\* ------------------------------------------------------------------------
\* the state after construction in an environment e, with the bus client
\* connected or not
InitIn(e, conn) ==
    /\ env = e
    /\ now = 0
    /\ connected = conn
    /\ devices_file \in e.devices
    /\ settings_file \in e.expirations
    /\ satellites \in e.stores
    /\ known_devices = LoadKnown(devices_file, Empty)
    /\ timeout_interval = settings_file
    /\ reload = [pc |-> "idle", todo |-> <<>>, ops |-> 0]
    /\ current_state = Empty
    /\ zoning_state = Empty
    /\ signal_buffers = Empty
    /\ discovery_cache = Empty
    /\ last_sat_signals = Empty
    /\ outbox = <<>>
    /\ obs = Idle
    /\ hist = Empty
    /\ satellite_stats = Empty
    /\ save_log = Empty
    /\ inflight = NotInFlight
    /\ admin = [pc |-> "idle", sid |-> None, change |-> Empty, loaded |-> Empty,
                ops |-> 0]
    /\ admin_wrote = Empty
    /\ interrupted = NoneInterrupted
    /\ calib_sessions = Empty
    /\ reply = NoReply
    /\ calib_starts = 0
    /\ retained = Empty
    /\ discovery_log = <<>>
    /\ loop_ready = <<>>
    /\ arrived = 0
    /\ ran = NoneRan

\* a buffer still within the sample budget of the model
InBudget(satellite_id, raw_identifier) ==
    LET buf_key == <<satellite_id, Upper(raw_identifier)>>
    IN  buf_key \in DOMAIN signal_buffers
          => Len(signal_buffers[buf_key].history) < MaxSamples

\* an observation arrives
Observe ==
    \E sat \in env.sats, i \in env.ids, r \in env.rssi :
        InBudget(sat, i) /\ Ingest(sat, i, r)

\* observations of the configured device from two configured satellites,
\* with the bus client connected
ZoneEnv == [schedule |-> {0, 5, 35, 65}, sats |-> {"s1", "s2"}, ids |-> {"AA:01"},
            rssi |-> RssiValues,
            expirations |-> ExpirationChoices, stores |-> {BothConfigured},
            devices |-> {<<DeviceAA>>}]

Init == InitIn(ZoneEnv, TRUE)

Next ==
    \/ Observe
    \/ Tick
    \/ Advance

Spec == Init /\ [][Next]_vars

\* observations from one satellite, configured or not yet registered, of a
\* device in either letter case, while the admin
\* changes the device list or the preferences
AdminEnv == [schedule |-> {0, 15, 65}, sats |-> {"s1"},
             ids |-> {"AA:01", "aa:01"}, rssi |-> RssiValues,
             expirations |-> ExpirationChoices, stores |-> {OnlyKitchen, Empty},
            devices |-> {<<DeviceAA>>}]

InitAdmin == InitIn(AdminEnv, FALSE)

NextAdmin ==
    \/ Observe
    \/ Tick
    \/ Advance
    \/ \E b \in BOOLEAN : SetConnected(b)
    \/ \E d \in DeviceLists : AdminSaveDevices(d)
    \/ \E e \in ExpirationChoices : AdminSavePreferences(e)
    \/ ReloadAdd
    \/ ReloadSettings

SpecAdmin == InitAdmin /\ [][NextAdmin]_vars

\* scenario S3: the configured device, satellite s1 in Kitchen and satellite
\* s2 in Bedroom, both with reference RSSI -59, the bus client connected
S3Env == [schedule |-> {}, sats |-> {"s1", "s2"}, ids |-> {"AA:01"}, rssi |-> {},
          expirations |-> {60}, stores |-> {BothConfigured},
            devices |-> {<<DeviceAA>>}]

InitS3 == InitIn(S3Env, TRUE)

\* the satellite has sent its sample of the current second
Sampled(satellite_id) ==
    /\ satellite_id \in DOMAIN last_sat_signals
    /\ last_sat_signals[satellite_id].time = now

\* s1 samples stay at -60 (S1 at t = 0, then at most one a second)
S3Kitchen == ~Sampled("s1") /\ Ingest("s1", "AA:01", -60)

\* s2 sends -58 at t = 1 (S2) and -50 at t = 2..8 (S3)
S3Bedroom ==
    /\ now >= 1
    /\ ~Sampled("s2")
    /\ Ingest("s2", "AA:01", IF now = 1 THEN -58 ELSE -50)

\* the next second begins once the sample the scenario prescribes for the
\* current one has been ingested
S3Second ==
    /\ now < 8
    /\ IF now = 0 THEN Sampled("s1") ELSE Sampled("s2")
    /\ now' = now + 1
    /\ outbox' = <<>>
    /\ obs' = Idle
    /\ UNCHANGED <<connected, devices_file, settings_file, satellites, known_devices,
                   timeout_interval, reload, current_state, zoning_state,
                   signal_buffers, discovery_cache, last_sat_signals, hist, env, registry_vars, service_vars>>

NextS3 ==
    \/ S3Kitchen
    \/ S3Bedroom
    \/ S3Second
    \/ Tick

SpecS3 == InitS3 /\ [][NextS3]_vars

\* observations at -70 dBm of the configured device from two satellites,
\* the second one configured or not yet registered, while the admin changes
\* the device list or the preferences
ZoneAdminEnv == [schedule |-> {0, 20, 65}, sats |-> {"s1", "s2"}, ids |-> {"AA:01"},
                 rssi |-> {-70},
                 expirations |-> {60}, stores |-> {BothConfigured, OnlyKitchen},
            devices |-> {<<DeviceAA>>}]

InitZoneAdmin == InitIn(ZoneAdminEnv, TRUE)

NextZoneAdmin ==
    \/ Observe
    \/ Tick
    \/ Advance
    \/ \E d \in DeviceLists : AdminSaveDevices(d)
    \/ \E e \in ExpirationChoices : AdminSavePreferences(e)
    \/ ReloadAdd
    \/ ReloadSettings

SpecZoneAdmin == InitZoneAdmin /\ [][NextZoneAdmin]_vars

\* a scan that keeps meeting devices it has not seen before (none of them
\* configured), heard by one satellite: up to MaxIdentifiers identifiers
MaxIdentifiers == 202

\* the k-th identifier of the scan
Ident(k) == "D" \o ToString(k)

ScanEnv == [schedule |-> {0, 400}, sats |-> {"s1"},
            ids |-> {Ident(k) : k \in 1..MaxIdentifiers}, rssi |-> {-70},
            expirations |-> {60}, stores |-> {OnlyKitchen},
            devices |-> {<<DeviceAA>>}]

InitScan == InitIn(ScanEnv, TRUE)

\* an observation of the first identifier that is not in the cache
ScanNew ==
    \E k \in 1..MaxIdentifiers :
        /\ Ident(k) \notin DOMAIN discovery_cache
        /\ \A j \in 1..(k - 1) : Ident(j) \in DOMAIN discovery_cache
        /\ \E r \in env.rssi : Ingest("s1", Ident(k), r)

\* the first identifier is observed again
ScanSeen ==
    /\ Ident(1) \in DOMAIN discovery_cache
    /\ discovery_cache[Ident(1)].last_seen < now
    /\ \E r \in env.rssi : Ingest("s1", Ident(1), r)

NextScan ==
    \/ ScanNew
    \/ ScanSeen
    \/ Advance

SpecScan == InitScan /\ [][NextScan]_vars

\* a health sensor value arrives
HealthUpdate ==
    \E sat \in env.sats, v \in {-60} : Health(sat, "wifi_signal", v)

\* two satellites, one configured and one not yet registered, that report
\* a device that is not configured and their health sensors
RegistryEnv == [schedule |-> {0, 30, 60, 61, 121}, sats |-> {"s1", "s2"},
                ids |-> {"FF:02"}, rssi |-> {-70},
                expirations |-> {60}, stores |-> {OnlyKitchen},
            devices |-> {<<DeviceAA>>}]

InitRegistry == InitIn(RegistryEnv, TRUE)

NextRegistry ==
    \/ Observe
    \/ HealthUpdate
    \/ Tick
    \/ Advance

SpecRegistry == InitRegistry /\ [][NextRegistry]_vars

\* an observation during which load_satellites fails: it logs the error and
\* returns {} to the registration
ObserveLoadFails ==
    \E sat \in env.sats, i \in env.ids, r \in env.rssi :
        /\ InBudget(sat, i)
        /\ IngestWith(sat, i, r, Empty)
        /\ UNCHANGED <<race_vars, loop_vars>>

\* a health sensor value during which load_satellites fails
HealthLoadFails ==
    \E sat \in env.sats, v \in {-60} :
        HealthWith(sat, "wifi_signal", v, Empty) /\ UNCHANGED race_vars

\* the registry when reads of satellites.json may fail
NextRegistryFaults ==
    \/ Observe
    \/ HealthUpdate
    \/ Tick
    \/ Advance
    \/ ObserveLoadFails
    \/ HealthLoadFails

\* the two satellites heard at two instants more than 60 s apart
FaultEnv == [schedule |-> {0, 61}, sats |-> {"s1", "s2"},
             ids |-> {"FF:02"}, rssi |-> {-70},
             expirations |-> {60}, stores |-> {OnlyKitchen},
            devices |-> {<<DeviceAA>>}]

InitRegistryFaults == InitIn(FaultEnv, TRUE)

SpecRegistryFaults == InitRegistryFaults /\ [][NextRegistryFaults]_vars

\* the event loop and the admin thread both at satellites.json: two
\* satellites, one of them not yet registered, report a device that is not
\* configured while the admin edits the first one
RaceEnv == [schedule |-> {0, 61}, sats |-> {"s1", "s2"},
            ids |-> {"FF:02"}, rssi |-> {-70},
            expirations |-> {60}, stores |-> {OnlyKitchen},
            devices |-> {<<DeviceAA>>}]

InitRace == InitIn(RaceEnv, TRUE)

\* an observation enters the registration
ObserveLoad ==
    \E sat \in env.sats, i \in env.ids, r \in env.rssi :
        RegistrationLoad(sat, i, r)

\* time passes while no handler is running
AdvanceIdle == inflight.pc = "idle" /\ Advance

NextRace ==
    \/ ObserveLoad
    \/ RegistrationSave
    \/ AdminLoadSatellites("s1", RoomForm)
    \/ AdminLoadSatellites("s1", RefForm)
    \/ AdminSaveSatellites
    \/ AdvanceIdle

SpecRace == InitRace /\ [][NextRace]_vars

\* the admin edits devices, preferences and satellites while the device is
\* observed; a save may stop half-way and the process may be restarted
CrashEnv == [schedule |-> {0, 61}, sats |-> {"s1"}, ids |-> {"AA:01"},
             rssi |-> {-70}, expirations |-> {15}, stores |-> {OnlyKitchen},
            devices |-> {<<DeviceAA>>}]

InitCrash == InitIn(CrashEnv, TRUE)

NextCrash ==
    \/ Observe
    \/ Advance
    \/ SaveDevicesFails(<<DeviceAA, DeviceBB>>)
    \/ SaveSettingsFails(30)
    \/ ReloadAdd
    \/ ReloadSettings
    \/ AdminLoadSatellites("s1", RoomForm)
    \/ AdminSaveSatellites
    \/ SaveSatellitesFails
    \/ Restart

SpecCrash == InitCrash /\ [][NextCrash]_vars

\* the device list holds the device in one of its three other spellings;
\* one satellite reports it
CasingEnv == [schedule |-> {0, 61}, sats |-> {"s1"}, ids |-> {"AA:01", "aa:01"},
              rssi |-> RssiValues, expirations |-> {60}, stores |-> {OnlyKitchen},
              devices |-> {<<DeviceLower>>, <<DeviceLegacy>>, <<DeviceUntyped>>}]

InitCasing == InitIn(CasingEnv, TRUE)

SpecCasing == InitCasing /\ [][Next]_vars

\* two iBeacon devices, one stored in lower case and one in upper case; one
\* satellite reports each of them under exactly the UUID that is stored
UuidEnv == [schedule |-> {0, 61}, sats |-> {"s1"},
            ids |-> {"e2c56db5-01", "E2C56DB5-02"},
            rssi |-> RssiValues, expirations |-> {60}, stores |-> {OnlyKitchen},
            devices |-> {<<BeaconLower, BeaconUpper>>}]

InitUuid == InitIn(UuidEnv, TRUE)

SpecUuid == InitUuid /\ [][Next]_vars

\* the calibration page of one satellite whose signal is steady or drops
\* once, polled while the satellite reports an unknown device
CalibEnv == [schedule |-> {0, 10, 15, 16, 45}, sats |-> {"s1"}, ids |-> {"FF:02"},
             rssi |-> {-59, -65}, expirations |-> {60}, stores |-> {OnlyKitchen},
             devices |-> {<<DeviceAA>>}]

InitCalib == InitIn(CalibEnv, TRUE)

\* an observation whose RSSI is not above the satellite's previous one
ObserveFalling ==
    \E sat \in env.sats, i \in env.ids, r \in env.rssi :
        /\ sat \in DOMAIN last_sat_signals => r <= last_sat_signals[sat].rssi
        /\ Ingest(sat, i, r)

NextCalib ==
    \/ ObserveFalling
    \/ \E sid \in env.sats : CalibrateStart(sid)
    \/ \E sid \in env.sats : CalibrateStatus(sid)
    \/ Advance

SpecCalib == InitCalib /\ [][NextCalib]_vars

\* aliases as the admin may have typed them: with a space, with capitals,
\* with a dash, and already in the normalised form
Aliases == {<<"A", " ", "b">>, <<"a", " ", "b">>, <<"a", "-", "b">>,
            <<"a", "_", "b">>, <<"A", "_", "B">>, <<"a", "b">>}

\* the device lists of one or two MAC devices with these aliases
AliasLists ==
    LET First(a) == [identifier |-> "AA:01", identifier_type |-> "mac", alias |-> a]
        Second(a) == [identifier |-> "FF:02", identifier_type |-> "mac", alias |-> a]
    IN  {<<First(a)>> : a \in Aliases}
          \cup {<<First(a), Second(b)>> : a \in Aliases, b \in Aliases}

DiscoveryEnv == [schedule |-> {0}, sats |-> {"s1"}, ids |-> {"AA:01"}, rssi |-> {-70},
                 expirations |-> {60}, stores |-> {OnlyKitchen},
                 devices |-> AliasLists]

InitDiscovery == InitIn(DiscoveryEnv, FALSE)

NextDiscovery ==
    \/ PublishDiscovery
    \/ \E b \in BOOLEAN : SetConnected(b)

SpecDiscovery == InitDiscovery /\ [][NextDiscovery]_vars

\* a satellite and the hub's own radio report the configured device; the bus
\* thread and the radio thread hand their observations to the event loop
QueueEnv == [schedule |-> {0, 5}, sats |-> {"s1"}, ids |-> {"AA:01"},
             rssi |-> RssiValues, expirations |-> {60}, stores |-> {OnlyKitchen},
             devices |-> {<<DeviceAA>>}]

InitQueue == InitIn(QueueEnv, TRUE)

NextQueue ==
    \/ DispatchBus
    \/ DispatchRadio
    \/ RunNext
    \/ Tick
    \/ Advance

SpecQueue == InitQueue /\ [][NextQueue]_vars

\* settings.json holds any of these values of PREF_BEACON_EXPIRATION, at start
\* or saved through the preferences page: the bounds 15 and 300 of the
\* setting, a value between them and one beyond each
PrefsEnv == [schedule |-> {0, 20}, sats |-> {"s1"}, ids |-> {"AA:01"}, rssi |-> {-70},
             expirations |-> {5, 15, 60, 300, 500}, stores |-> {OnlyKitchen},
             devices |-> {<<DeviceAA>>}]

InitPrefs == InitIn(PrefsEnv, TRUE)

NextPrefs ==
    \/ Observe
    \/ Tick
    \/ Advance
    \/ \E e \in env.expirations : AdminSavePreferences(e)
    \/ ReloadAdd
    \/ ReloadSettings

SpecPrefs == InitPrefs /\ [][NextPrefs]_vars

\* one satellite reports the configured device while the admin uses the
\* Bluetooth page and the calibration page; an observation is handled in two
\* steps, before and after the registration has read satellites.json
ThreadsEnv == [schedule |-> {0, 20}, sats |-> {"s1"}, ids |-> {"AA:01"},
               rssi |-> {-70}, expirations |-> {60}, stores |-> {OnlyKitchen},
               devices |-> {<<DeviceAA>>}]

InitThreads == InitIn(ThreadsEnv, TRUE)

\* an observation arrives and its handler runs up to the registration's read
ObserveBegin ==
    \E sat \in env.sats, i \in env.ids, r \in env.rssi :
        InBudget(sat, i) /\ RegistrationLoad(sat, i, r)

NextThreads ==
    \/ ObserveBegin
    \/ RegistrationSave
    \/ Tick
    \/ AdvanceIdle
    \/ BluetoothClear
    \/ \E sid \in env.sats : CalibrateStart(sid)
    \/ \E sid \in env.sats : CalibrateStatus(sid)

SpecThreads == InitThreads /\ [][NextThreads]_vars

\* the two configured satellites observing the device at instants closer
\* together than debounce_time
DebounceEnv == [schedule |-> {0, 2, 5, 7}, sats |-> {"s1", "s2"}, ids |-> {"AA:01"},
                rssi |-> RssiValues, expirations |-> {60},
                stores |-> {BothConfigured}, devices |-> {<<DeviceAA>>}]

InitDebounce == InitIn(DebounceEnv, TRUE)

SpecDebounce == InitDebounce /\ [][Next]_vars

\* one satellite, stored with a reference RSSI or not stored at all, sending
\* samples at the reference levels
RefEnv == [schedule |-> {0, 5, 35, 65}, sats |-> {"s1"}, ids |-> {"AA:01"},
           rssi |-> {-59, -65}, expirations |-> ExpirationChoices,
           stores |-> {OnlyKitchen, Empty}, devices |-> {<<DeviceAA>>}]

InitRef == InitIn(RefEnv, TRUE)

SpecRef == InitRef /\ [][Next]_vars

\* the two configured satellites reporting, besides an ordinary level, the
\* RSSI 0 and a level so weak that the distance is 1000 m
EdgeEnv == [schedule |-> {0, 5, 65}, sats |-> {"s1", "s2"}, ids |-> {"AA:01"},
            rssi |-> {0, -70, -134}, expirations |-> {60},
            stores |-> {BothConfigured}, devices |-> {<<DeviceAA>>}]

InitEdge == InitIn(EdgeEnv, TRUE)

SpecEdge == InitEdge /\ [][Next]_vars

\* ------------------------------------------------------------------------
\* Properties
\* ------------------------------------------------------------------------
\* the step just taken was an ingest of a device that is in known_devices
IngestedKnown ==
    obs.op = "ingest" /\ obs.identifier \in DOMAIN known_devices

\* the configured room of the satellite of the step just taken
ConfiguredRoom ==
    IF obs.sat \in DOMAIN satellites /\ "room" \in DOMAIN satellites[obs.sat]
    THEN satellites[obs.sat].room ELSE "Unassigned"

\* the device state of identifier i as it was when the step just taken began
Before(i) == obs.pre[i]

\* the step just taken evaluated the zone of device i
Evaluated(i) == i \in obs.evaluated

\* C1: after an ingest from satellite S of a known identifier with raw RSSI r
\* at time now, the device's source entry for S holds raw_rssi = r and the
\* device's last_seen equals now.
C1_SourceRecorded ==
    IngestedKnown =>
        /\ obs.identifier \in DOMAIN current_state
        /\ obs.sat \in DOMAIN current_state[obs.identifier].sources
        /\ current_state[obs.identifier].sources[obs.sat].raw_rssi = obs.rssi
        /\ current_state[obs.identifier].last_seen = now

\* an ingest at a later instant whose raw sample differs from the smoothed
\* value stored beside it
C1_Witness ==
    /\ IngestedKnown
    /\ now > 0
    /\ obs.identifier \in DOMAIN current_state
    /\ current_state[obs.identifier].sources[obs.sat].smooth_rssi # RssiScale * obs.rssi

\* the step just taken was the first ingest of a known device, from a
\* satellite configured with a room
FirstIngestConfigured ==
    /\ IngestedKnown
    /\ Before(obs.identifier).created
    /\ ConfiguredRoom # "Unassigned"

\* the step just taken issued exactly one state update, for
\* device i that carries `state` and an attribute document with room `room`
PublishedOnce(i, state, room) ==
    /\ Len(outbox) = 1
    /\ Upper(outbox[1].identifier) = i
    /\ outbox[1].state = state
    /\ outbox[1].room = room

Evaluation(i) == [current_state[i] EXCEPT !.room = Before(i).room]

\* the current room of i had an alive source in the evaluation
RoomHadAlive(i) == SeenInRoom(Evaluation(i), now, Before(i).room) # {}

\* the best candidate of the evaluation was closer than the current room's
\* closest alive source by more than the hysteresis
CandidateLed(i) == SeenLeader(Evaluation(i), Before(i).room, now) # None

\* C3: an evaluation in which the current room still has an alive source and
\* the best candidate's distance is not smaller than the current room's
\* distance minus the hysteresis neither changes the room nor sets
\* pending_room (an unset pending_room stays unset).
C3_HysteresisSuppression ==
    \A i \in DOMAIN current_state :
        (Evaluated(i) /\ RoomHadAlive(i) /\ ~CandidateLed(i)) =>
            /\ current_state[i].room = Before(i).room
            /\ Before(i).pending_room = None => zoning_state[i].pending_room = None

\* an evaluation whose best candidate is in another room and closer than the
\* current room, but by less than the hysteresis
C3_Witness ==
    \E i \in DOMAIN current_state :
        /\ Evaluated(i) /\ RoomHadAlive(i) /\ ~CandidateLed(i)
        /\ LET b == current_state[i].sources[SeenBest(Evaluation(i), now)]
           IN  /\ b.room_name # Before(i).room
               /\ b.distance < SeenMinDist(Evaluation(i),
                                           SeenInRoom(Evaluation(i), now, Before(i).room))
        /\ zoning_state[i].pending_room = None

\* the evaluation of the step just taken changed the room of device i
Transitioned(i) == Evaluated(i) /\ current_state[i].room # Before(i).room

\* C4: no room transition happens earlier than debounce_time after the moment
\* the candidate room first satisfied the switch inequality, unless the
\* current room has no alive sources at the moment of the transition.
C4_DebounceLowerBound ==
    \A i \in DOMAIN current_state :
        (Transitioned(i) /\ RoomHadAlive(i)) =>
            LET first == hist[i].first_lead[current_state[i].room]
            IN  first # -1 /\ now - first >= 5

\* a debounced switch: the room changed while the room left still had an
\* alive source
C4_Witness ==
    \E i \in DOMAIN current_state :
        /\ Transitioned(i) /\ RoomHadAlive(i)
        /\ Before(i).room = "Kitchen" /\ current_state[i].room = "Bedroom"
        /\ now - hist[i].first_lead["Bedroom"] = 5

\* C5: whenever the room changes to R while the previous room still has an
\* alive source, R was the best candidate and satisfied the switch inequality
\* in every evaluation of the preceding debounce_time seconds: no evaluation
\* later than now - debounce_time found R not leading.
C5_ContinuousLead ==
    \A i \in DOMAIN current_state :
        (Transitioned(i) /\ RoomHadAlive(i)) =>
            LET last == hist[i].last_nonlead[current_state[i].room]
            IN  last = -1 \/ now - last >= 5

\* C6: while every evaluation since T finds the same candidate room R
\* satisfying the switch inequality, the first of them sets pending_room = R,
\* and an evaluation at or after T + debounce_time changes the room to R,
\* clears pending_room and publishes the change.
C6_DebouncedSwitchCommits ==
    \A i \in DOMAIN current_state :
        (Evaluated(i) /\ CandidateLed(i)) =>
            LET R == SeenLeader(Evaluation(i), Before(i).room, now)
            IN  /\ hist[i].lead_evals = 1 => zoning_state[i].pending_room = R
                /\ now - hist[i].lead_since >= 5 =>
                      /\ current_state[i].room = R
                      /\ zoning_state[i].pending_room = None
                      /\ PublishedOnce(i, "home", R)

\* C7 as stated: in scenario S3 the first -50 sample (t = 2) sets
\* pending_room = "Bedroom", no transition happens before t = 7, and the
\* evaluation at or after t = 7 changes the room to "Bedroom".
C7_S3Switch ==
    \A i \in DOMAIN current_state :
        /\ (obs.op = "ingest" /\ obs.sat = "s2" /\ now = 2)
              => zoning_state[i].pending_room = "Bedroom"
        /\ now < 7 => current_state[i].room = "Kitchen"
        /\ (Evaluated(i) /\ now >= 7) => current_state[i].room = "Bedroom"

\* C7 amended: in scenario S3 with its literal numbers no -50 sample satisfies
\* the switch inequality: Kitchen stays at 1.10 m and Bedroom's smoothed
\* distance stays above 1.10 - 0.8 = 0.30 m, so pending_room stays unset
\* and the room stays "Kitchen" through t = 8.
C7_S3StaysInKitchen ==
    \A i \in DOMAIN current_state :
        /\ current_state[i].room = "Kitchen"
        /\ zoning_state[i].pending_room = None
        /\ current_state[i].sources["s1"].distance = 110
        /\ "s2" \in DOMAIN current_state[i].sources
              => current_state[i].sources["s2"].distance > 30

\* the last sample of the scenario: s2's -50 at t = 8, Bedroom at 0.52 m,
\* the device still in Kitchen
C7_Witness ==
    /\ now = 8
    /\ obs.op = "ingest" /\ obs.sat = "s2"
    /\ \E i \in obs.evaluated :
          /\ current_state[i].room = "Kitchen"
          /\ current_state[i].sources["s2"].distance = 52
          /\ Len(signal_buffers[<<"s2", i>>].history) = 7

\* C8: when two alive sources A and B satisfy dist(A) + hysteresis <= dist(B)
\* and the device is not in A's room, no single evaluation moves the device
\* to B's room.
C8_ZoningMonotonicity ==
    \A i \in DOMAIN current_state :
        Evaluated(i) =>
            LET st == Evaluation(i)
            IN  \A A \in SeenAlive(st, now), B \in SeenAlive(st, now) :
                    ( /\ st.sources[A].distance + 80 <= st.sources[B].distance
                      /\ Before(i).room # st.sources[A].room_name )
                    => ~( /\ Transitioned(i)
                          /\ current_state[i].room = st.sources[B].room_name )

\* an evaluation with such a pair A, B that moved a device that was in
\* neither room, to A's room
C8_Witness ==
    \E i \in DOMAIN current_state :
        /\ Transitioned(i)
        /\ Before(i).room = "not_home"
        /\ LET st == Evaluation(i)
           IN  \E A \in SeenAlive(st, now), B \in SeenAlive(st, now) :
                   /\ st.sources[A].distance + 80 <= st.sources[B].distance
                   /\ Before(i).room # st.sources[A].room_name
                   /\ current_state[i].room = st.sources[A].room_name

\* device i was present when the tick just taken began and its last
\* observation is older than timeout_interval
Overdue(i) ==
    /\ obs.op = "tick"
    /\ i \in DOMAIN obs.pre
    /\ Before(i).present
    /\ now - current_state[i].last_seen > timeout_interval

\* the state of device i after a departure
Gone(i) ==
    /\ ~current_state[i].present
    /\ current_state[i].room = "not_home"
    /\ current_state[i].distance = -100

\* the step just taken issued a state update for device i that carries
\* not_home
PublishedNotHome(i) ==
    \E k \in 1..Len(outbox) :
        /\ Upper(outbox[k].identifier) = i
        /\ outbox[k].state = "not_home"
        /\ outbox[k].room = "not_home"

\* C9 as stated: at a tick, every device of the state store that is present
\* and whose last observation is older than timeout_interval gets
\* present = false, room = "not_home", distance = -1 and a published state
\* update carrying not_home.
C9_Departure ==
    \A i \in DOMAIN current_state :
        Overdue(i) => Gone(i) /\ PublishedNotHome(i)

\* C9 amended: at a tick, every device of the state store that is present
\* and whose last observation is older than timeout_interval gets
\* present = false, room = "not_home" and distance = -1; the state update
\* carrying not_home is published exactly when the device is still in
\* known_devices.
C9_DepartureKnown ==
    \A i \in DOMAIN current_state :
        Overdue(i) =>
            /\ Gone(i)
            /\ PublishedNotHome(i) <=> i \in DOMAIN known_devices

\* a tick that marked a device gone and published it
C9_Witness ==
    \E i \in DOMAIN current_state : Overdue(i) /\ Gone(i) /\ PublishedNotHome(i)

\* C10: after each completed tick, every present device satisfies
\* now - last_seen <= timeout_interval.
C10_PresentWithinTimeout ==
    obs.op = "tick" =>
        \A i \in DOMAIN current_state :
            current_state[i].present =>
                now - current_state[i].last_seen <= timeout_interval

\* a tick that left present a device observed exactly timeout_interval ago
C10_Witness ==
    /\ obs.op = "tick"
    /\ \E i \in DOMAIN current_state :
          /\ current_state[i].present
          /\ now - current_state[i].last_seen = timeout_interval

\* C11: for every device that has at least one source entry, the last_seen
\* of its state is the largest last_seen among its source entries.
C11_LastSeenIsMax ==
    \A i \in DOMAIN current_state :
        LET st == current_state[i]
        IN  DOMAIN st.sources # {} =>
              /\ \E s \in DOMAIN st.sources : st.sources[s].last_seen = st.last_seen
              /\ \A s \in DOMAIN st.sources : st.sources[s].last_seen <= st.last_seen

\* a device with two sources last heard at different times, the older one
\* being the one observed first
C11_Witness ==
    \E i \in DOMAIN current_state :
        \E s, u \in DOMAIN current_state[i].sources :
            /\ current_state[i].sources[s].last_seen < current_state[i].sources[u].last_seen
            /\ current_state[i].last_seen > 0

\* the room of the best alive source of the evaluation of device i
BestRoom(i) == current_state[i].sources[SeenBest(Evaluation(i), now)].room_name

\* the evaluation of device i found at least one alive source and none that
\* reports the room the device was in
RoomLost(i) ==
    /\ Evaluated(i)
    /\ SeenAlive(Evaluation(i), now) # {}
    /\ SeenInRoom(Evaluation(i), now, Before(i).room) = {}

\* a state update of device i carrying `room` was issued by the step
PublishedRoom(i, room) ==
    \E k \in 1..Len(outbox) :
        Upper(outbox[k].identifier) = i /\ outbox[k].room = room

\* a tick re-evaluates every device that was present, is not marked gone by
\* this tick and whose room has no alive source
TickReevaluates ==
    obs.op = "tick" =>
        \A i \in DOMAIN obs.pre :
            (Before(i).present /\ ~Overdue(i)
             /\ SeenInRoom(current_state[i], now, Before(i).room) = {})
                => Evaluated(i)

Published(i) == \E k \in 1..Len(outbox) : Upper(outbox[k].identifier) = i

\* the evaluation of device i left the device in the room it was in
RoomKept(i) == Evaluated(i) /\ current_state[i].room = Before(i).room

\* last_published of device i was more than 30 s old at the evaluation
HeartbeatWasDue(i) == now - Before(i).last_pub > 30

\* C13 as stated: an evaluation that ends with the room unchanged publishes
\* a state update if and only if now - last_published > 30 s.
C13_Heartbeat ==
    \A i \in DOMAIN current_state :
        RoomKept(i) => (Published(i) <=> HeartbeatWasDue(i))

\* C13 (amended): an evaluation that finds an alive source and ends with the
\* room unchanged publishes exactly one state update if now - last_published
\* > 30 s and none otherwise; an evaluation that finds no alive source
\* publishes nothing.
C13_HeartbeatAlive ==
    \A i \in DOMAIN current_state :
        RoomKept(i) =>
            IF SeenAlive(Evaluation(i), now) = {} THEN outbox = <<>>
            ELSE IF HeartbeatWasDue(i)
                 THEN PublishedOnce(i, "home", current_state[i].room)
                 ELSE outbox = <<>>

\* an evaluation that kept the room and published because the last state
\* update was more than 30 s old
C13_Witness ==
    \E i \in DOMAIN current_state :
        /\ RoomKept(i)
        /\ Before(i).last_pub > 0
        /\ HeartbeatWasDue(i)
        /\ PublishedOnce(i, "home", current_state[i].room)

\* C14: the discovery cache never holds more than 200 entries.
C14_CacheCap == Cardinality(DOMAIN discovery_cache) <= discovery_cap

\* C15: the registration of a satellite never calls save_satellites twice
\* within 60 s: any two saves on behalf of the same satellite are at least
\* 60 s apart.
C15_SaveRate ==
    \A S \in DOMAIN save_log :
        \A k \in 1..(Len(save_log[S]) - 1) :
            save_log[S][k + 1] - save_log[S][k] >= save_throttle

\* a satellite observed all along (its last signal is of this instant) whose
\* registration saved twice, 61 s apart
C15_Witness ==
    \E S \in DOMAIN save_log :
        /\ Len(save_log[S]) >= 2
        /\ save_log[S][2] - save_log[S][1] = 61
        /\ S \in DOMAIN last_sat_signals
        /\ last_sat_signals[S].time = now
        /\ S \in DOMAIN satellite_stats

\* C16: after an observation from satellite S, S is a key of the store; if
\* S was not a key before, its record is {room: "Unassigned", last_seen: the
\* observation time}; the record of every other satellite is as it was.
C16_AutoRegistration ==
    [][obs'.op = "ingest" =>
          /\ obs'.sat \in DOMAIN satellites'
          /\ obs'.sat \notin DOMAIN satellites =>
                satellites'[obs'.sat] = [room |-> "Unassigned", last_seen |-> now']
          /\ \A T \in DOMAIN satellites \ {obs'.sat} :
                T \in DOMAIN satellites' /\ satellites'[T] = satellites[T]]_vars

\* an observation of a device that is no longer configured has just
\* registered s2 next to the configured s1
C16_Witness ==
    /\ obs.op = "ingest"
    /\ ~obs.known
    /\ obs.sat = "s2"
    /\ now > 0
    /\ "s2" \in DOMAIN save_log
    /\ save_log["s2"] = <<now>>
    /\ satellites = Put(OnlyKitchen, "s2", [room |-> "Unassigned", last_seen |-> now])

\* C17: no ingest, health update or maintenance tick removes a satellite
\* from the store, also when a load of the store fails and returns {}.
C17_NeverDeleted == [][DOMAIN satellites \subseteq DOMAIN satellites']_vars

\* C18: every satellite record keeps room, x, y and ref_rssi_1m as the admin
\* last saved them, whatever the registration writes back.
C18_AdminFieldsPreserved ==
    \A sid \in DOMAIN admin_wrote :
        /\ sid \in DOMAIN satellites
        /\ AdminFields(satellites[sid]) = admin_wrote[sid]

\* C19: after a save that did not complete, a load of the file returns its
\* complete previous content or the complete new content.
C19_AtomicWrites ==
    obs.op = "save_failed" =>
        \/ Content(interrupted.file) = interrupted.prev
        \/ Content(interrupted.file) = interrupted.new

\* a device dict that denotes a MAC device: identifier_type is 'mac' or is
\* missing (the publisher's and the admin's default)
IsMac(d) == "identifier_type" \in DOMAIN d => d.identifier_type = "mac"

\* C20: every key of known_devices, current_state and discovery_cache that
\* denotes a MAC device is upper-case.
C20_MacKeysUpper ==
    /\ \A k \in DOMAIN known_devices : IsMac(known_devices[k]) => Upper(k) = k
    /\ \A k \in DOMAIN current_state : Upper(k) = k
    /\ \A k \in DOMAIN discovery_cache : Upper(k) = k

\* the step just taken was the ingest of an observation that carried exactly
\* the identifier k
ObservedAs(k) == obs.op = "ingest" /\ obs.identifier = Upper(k)

\* C21: an observation whose UUID is byte-identical to the identifier of a
\* known UUID device is recognised as that device and updates its state, and
\* the keys it gets in current_state and discovery_cache are that identifier.
C21_UuidVerbatim ==
    \A k \in DOMAIN known_devices :
        (known_devices[k].identifier_type = "uuid" /\ ObservedAs(k))
        => /\ k \in DOMAIN current_state
           /\ current_state[k].last_seen = now
           /\ k \in DOMAIN discovery_cache

\* C22: an ingest whose identifier is not a known device leaves current_state,
\* signal_buffers and zoning_state as they were and publishes nothing, while
\* the calibration cache, the discovery cache and the satellite registry
\* hold the observation and its satellite afterwards.
C22_UnknownStops ==
    [][(obs'.op = "ingest" /\ obs'.identifier \notin DOMAIN known_devices)
       => /\ current_state' = current_state
          /\ signal_buffers' = signal_buffers
          /\ zoning_state' = zoning_state
          /\ outbox' = <<>>
          /\ obs'.sat \in DOMAIN last_sat_signals'
          /\ last_sat_signals'[obs'.sat] = [rssi |-> obs'.rssi, time |-> now]
          /\ obs'.identifier \in DOMAIN discovery_cache'
          /\ discovery_cache'[obs'.identifier].last_seen = now
          /\ obs'.sat \in DOMAIN discovery_cache'[obs'.identifier].sources
          /\ obs'.sat \in DOMAIN satellites']_vars

\* an observation of a device that has a state but is no longer a known
\* device has been ingested
C22_Witness ==
    /\ obs.op = "ingest"
    /\ obs.identifier \notin DOMAIN known_devices
    /\ obs.identifier \in DOMAIN current_state
    /\ current_state[obs.identifier].last_seen < now
    /\ obs.identifier \in DOMAIN discovery_cache

\* the step just taken was a status request that found a session
StatusAnswered == obs.op = "calibrate_status" /\ reply.kind = "status"

\* the deviations of the last 30 readings from their mean, times 30, squared
\* and summed: the sample standard deviation is below 2.0 exactly when this
\* is below 4 * 29 * 900
SpreadOfLast30(readings) ==
    LET n == Len(readings)
        last == [i \in 1..30 |-> readings[n - 30 + i]]
        total == SumOf(last)
    IN  SumOf([i \in 1..30 |-> (30 * last[i] - total) * (30 * last[i] - total)])

\* C23: a status request reports stable exactly when (count >= 30 and the
\* standard deviation of the last 30 readings is below 2.0 and elapsed > 15)
\* or elapsed >= 45, and reports progress 100 when stable and
\* min(99, floor(elapsed / 25 * 100)) otherwise.
C23_StatusResult ==
    StatusAnswered =>
        LET readings == calib_sessions[obs.sat].readings
            count == Len(readings)
            elapsed == now - calib_sessions[obs.sat].start
            stable == \/ /\ count >= 30
                         /\ SpreadOfLast30(readings) < 4 * 29 * 900
                         /\ elapsed > 15
                      \/ elapsed >= 45
            percent == (elapsed * 100) \div 25
        IN  /\ reply.count = count
            /\ reply.stable = stable
            /\ reply.progress = IF stable THEN 100
                                 ELSE IF percent < 99 THEN percent ELSE 99

\* a status request has reported a session stable before 45 s, on 30 or more
\* readings that are not all equal
C23_Witness ==
    /\ StatusAnswered
    /\ reply.stable
    /\ reply.progress = 100
    /\ now - calib_sessions[obs.sat].start < 45
    /\ \E i, j \in 1..Len(calib_sessions[obs.sat].readings) :
           calib_sessions[obs.sat].readings[i] # calib_sessions[obs.sat].readings[j]

\* C24: start creates or replaces the satellite's session with start = now
\* and no readings; a status request appends exactly one reading, the
\* satellite's most recent raw RSSI of the ingestion cache, if and only if
\* that sample is less than 10 s old, and otherwise leaves the readings as
\* they were; a status request for a satellite without a session answers
\* with an error and creates no session.
C24_SessionSteps ==
    [][/\ obs'.op = "calibrate_start"
          => /\ calib_sessions'[obs'.sat] = [start |-> now, readings |-> <<>>]
             /\ DOMAIN calib_sessions' = DOMAIN calib_sessions \cup {obs'.sat}
             /\ \A sid \in DOMAIN calib_sessions \ {obs'.sat} :
                    calib_sessions'[sid] = calib_sessions[sid]
       /\ (obs'.op = "calibrate_status" /\ obs'.sat \in DOMAIN calib_sessions)
          => LET before == calib_sessions[obs'.sat]
                 after == calib_sessions'[obs'.sat]
                 fresh == /\ obs'.sat \in DOMAIN last_sat_signals
                          /\ now - last_sat_signals[obs'.sat].time < 10
             IN  /\ DOMAIN calib_sessions' = DOMAIN calib_sessions
                 /\ after.start = before.start
                 /\ after.readings =
                       IF fresh
                       THEN Append(before.readings, last_sat_signals[obs'.sat].rssi)
                       ELSE before.readings
       /\ (obs'.op = "calibrate_status" /\ obs'.sat \notin DOMAIN calib_sessions)
          => /\ reply'.kind = "error"
             /\ calib_sessions' = calib_sessions]_vars

\* in a session that replaced an earlier one and has collected readings, a
\* status request has found the satellite's last sample too old
C24_Witness ==
    /\ StatusAnswered
    /\ calib_starts = 2
    /\ reply.count >= 1
    /\ obs.sat \in DOMAIN last_sat_signals
    /\ now - last_sat_signals[obs.sat].time >= 10

\* the alias with every space turned into an underscore, and the alias in
\* its normalised form, character by character
Underscored(alias) ==
    [i \in DOMAIN alias |-> IF alias[i] = " " THEN "_" ELSE alias[i]]

Slug(alias) ==
    [i \in DOMAIN alias |->
        CASE alias[i] \in {" ", "-", "_"} -> "_"
          [] alias[i] \in {"A", "a"} -> "a"
          [] alias[i] \in {"B", "b"} -> "b"]

\* the four config topics of a node
ConfigTopics(node) ==
    {TrackerTopic(node)} \cup {SensorTopic(node, x) : x \in {"room", "distance", "rssi"}}

\* C25: in publish_discovery, for every device the empty payloads to the
\* four topics of the pre-normalisation form of its alias are published
\* before the device's non-empty configs, and at the end the payload retained
\* on each of the four new-form config topics of every device is non-empty.
C25_LegacyCleanup ==
    (obs.op = "discovery" /\ connected) =>
        \A k \in 1..Len(devices_file) :
            /\ \A t \in ConfigTopics(Underscored(devices_file[k].alias)) :
                  \E i \in 1..Len(discovery_log) :
                     /\ discovery_log[i] = Publish(t, "", k)
                     /\ \A j \in 1..Len(discovery_log) :
                           (discovery_log[j].device = k /\ discovery_log[j].payload # "")
                           => i < j
            /\ \A t \in ConfigTopics(Slug(devices_file[k].alias)) :
                  t \in DOMAIN retained /\ retained[t] # ""

\* publish_discovery has run, with the client connected, for two devices
\* whose different aliases have the same normalised form, one of them
\* already in that form
C25_Witness ==
    /\ obs.op = "discovery"
    /\ connected
    /\ Len(devices_file) = 2
    /\ devices_file[1].alias = <<"A", " ", "b">>
    /\ devices_file[2].alias = <<"a", "_", "b">>
    /\ Len(discovery_log) = 20

\* the devices of the state store that a message is about
DevicesOf(msg) ==
    {i \in DOMAIN current_state \cap DOMAIN known_devices :
        known_devices[i].identifier = msg.identifier}

\* C26: every state update a handler issues carries home if the device's
\* present flag is true and not_home otherwise, confidence 100 if present and
\* 0 otherwise, and the room, distance and last_seen of the device's state.
C26_StateUpdateContent ==
    obs.op \in {"ingest", "tick"} =>
        \A n \in 1..Len(outbox) :
            /\ DevicesOf(outbox[n]) # {}
            /\ \A i \in DevicesOf(outbox[n]) :
                  /\ outbox[n].state = IF current_state[i].present THEN "home"
                                        ELSE "not_home"
                  /\ outbox[n].confidence = IF current_state[i].present THEN 100
                                             ELSE 0
                  /\ outbox[n].room = current_state[i].room
                  /\ outbox[n].distance = current_state[i].distance
                  /\ outbox[n].last_seen = current_state[i].last_seen

\* a maintenance tick has issued the update of a departure
C26_Witness ==
    /\ obs.op = "tick"
    /\ Len(outbox) = 1
    /\ outbox[1].state = "not_home"
    /\ outbox[1].confidence = 0
    /\ outbox[1].sent

C28_AtomicReload ==
    [][\A k \in DOMAIN known_devices \cap DOMAIN LoadKnown(devices_file', Empty) :
          k \in DOMAIN known_devices']_vars

\* C30: once reload_config has run, timeout_interval lies within 15..300
\* seconds, whatever integer PREF_BEACON_EXPIRATION holds in settings.json.
C30_TimeoutBounds ==
    reload.pc = "idle" => (timeout_interval >= 15 /\ timeout_interval <= 300)

\* the handlers that run on the event loop
LoopOps == {"ingest", "tick", "health"}

\* C29: every step that changes current_state, satellite_stats,
\* discovery_cache, signal_buffers, zoning_state, last_sat_signals or the
\* calibration sessions is a step of the event loop, and none of them
\* changes while an ingest is between two of its steps.
C29_LoopOnlyWrites ==
    [][(<<current_state, satellite_stats, discovery_cache, signal_buffers,
          zoning_state, last_sat_signals, calib_sessions>>'
          # <<current_state, satellite_stats, discovery_cache, signal_buffers,
              zoning_state, last_sat_signals, calib_sessions>>)
       => (obs'.op \in LoopOps /\ ~(inflight.pc = "loaded" /\ inflight'.pc = "loaded"))]_vars

\* the satellite ids of the model in lexicographic order
SatIdBefore(a, b) == a = "s1" /\ b = "s2"

\* source a is preferred to source b: smaller distance, then higher smoothed
\* RSSI, then smaller satellite id
Preferred(st, a, b) ==
    LET x == st.sources[a]
        y == st.sources[b]
    IN  \/ x.distance < y.distance
        \/ x.distance = y.distance /\ x.smooth_rssi > y.smooth_rssi
        \/ x.distance = y.distance /\ x.smooth_rssi = y.smooth_rssi /\ SatIdBefore(a, b)

\* the alive source preferred to every other alive source (None without one)
PreferredSource(st, t) ==
    IF SeenAlive(st, t) = {} THEN None
    ELSE CHOOSE a \in SeenAlive(st, t) :
            \A b \in SeenAlive(st, t) \ {a} : Preferred(st, a, b)

\* C31: in the evaluation of an ingest of a known device, the source picked
\* as best is the alive source with the smallest distance, on equal distance
\* the one with the higher smoothed RSSI, then the smaller satellite id,
\* whatever the order in which the sources were first observed.
C31_BestSelection ==
    IngestedKnown =>
        LET st == current_state[obs.identifier]
        IN  SelectBest(st, now, 1, None, NO_DIST) = PreferredSource(st, now)

\* the step just taken evaluated device i while its room was one of the values
\* of the immediate-assignment test, and assigned it to a candidate room
ImmediatelyAssigned(i) ==
    /\ Evaluated(i)
    /\ Before(i).room \in {"unknown", "Unassigned", "not_home"}
    /\ current_state[i].present
    /\ current_state[i].room # Before(i).room

\* C32: after an immediate assignment (the current room is unknown,
\* Unassigned or not_home and a candidate exists) the device's pending_room
\* is unset, whatever pending_room and pending_since held before.
C32_ImmediateClearsPending ==
    \A i \in DOMAIN current_state :
        ImmediatelyAssigned(i) => zoning_state[i].pending_room = None

\* the step just taken evaluated device i, found the pending room leading
\* again and did not change the room
WonAgain(i) ==
    /\ Evaluated(i) /\ RoomHadAlive(i) /\ CandidateLed(i)
    /\ Before(i).pending_room = SeenLeader(Evaluation(i), Before(i).room, now)
    /\ current_state[i].room = Before(i).room

\* C33: an evaluation in which the candidate room wins again while it is
\* already the pending room, and which does not commit, leaves pending_since
\* unchanged; pending_since is set to now only by an evaluation that changes
\* pending_room to a different candidate room.
C33_TimerNotRestarted ==
    \A i \in DOMAIN current_state :
        /\ WonAgain(i) =>
              /\ zoning_state[i].start = Before(i).start
              /\ zoning_state[i].pending_room = Before(i).pending_room
        /\ (Evaluated(i) /\ zoning_state[i].start # Before(i).start) =>
              /\ zoning_state[i].start = now
              /\ zoning_state[i].pending_room # Before(i).pending_room
              /\ zoning_state[i].pending_room
                   = SeenLeader(Evaluation(i), Before(i).room, now)

\* the pending room wins again, later than the evaluation that recorded it and
\* before the debounce time is over
C33_Witness ==
    \E i \in DOMAIN current_state :
        /\ WonAgain(i)
        /\ zoning_state[i].pending_room = "Bedroom"
        /\ now > zoning_state[i].start
        /\ now - zoning_state[i].start < 5

\* C34: an observation of a known device from a satellite whose stored room
\* is "Unassigned", or that had no stored record, is recorded with room_name
\* "Sat:<id>"; no source room_name and no device room is ever the literal
\* "Unassigned".
C34_UnassignedIsSatRoom ==
    /\ (IngestedKnown /\ ConfiguredRoom = "Unassigned") =>
          current_state[obs.identifier].sources[obs.sat].room_name = "Sat:" \o obs.sat
    /\ \A i \in DOMAIN current_state :
          /\ current_state[i].room # "Unassigned"
          /\ \A s \in DOMAIN current_state[i].sources :
                current_state[i].sources[s].room_name # "Unassigned"

\* the first observation of the device comes from a satellite that had no
\* record and is registered as Unassigned by it: the device is in "Sat:s1"
C34_Witness ==
    /\ IngestedKnown /\ ConfiguredRoom = "Unassigned"
    /\ Before(obs.identifier).created
    /\ obs.sat = "s1"
    /\ current_state[obs.identifier].present
    /\ current_state[obs.identifier].room = "Sat:s1"

\* the store record of the satellite of the step just taken has no
\* ref_rssi_1m
NoStoredReference ==
    obs.sat \in DOMAIN satellites => "ref_rssi_1m" \notin DOMAIN satellites[obs.sat]

\* C35: for an observation from a satellite whose store record has no
\* ref_rssi_1m the source distance is computed with tx_power = -59, so that a
\* smoothed RSSI of -59 gives the distance 1.0 m.
C35_DefaultReference ==
    (IngestedKnown /\ NoStoredReference) =>
        LET src == current_state[obs.identifier].sources[obs.sat]
        IN  /\ src.distance = calculate_distance(src.smooth_rssi, -59)
            /\ src.smooth_rssi = -59 * RssiScale => src.distance = 100

\* C36: in every reachable state and for every device, the device is absent
\* exactly when its room is one of the values "Unknown" and "not_home" that
\* name no room: it is never present without a room and never absent while
\* assigned to a satellite's room.
C36_PresentIffRoom ==
    \A i \in DOMAIN current_state :
        ~current_state[i].present <=> current_state[i].room \in {"Unknown", "not_home"}

\* a maintenance tick has just marked a device absent that was present in a
\* satellite's room
C36_Witness ==
    \E i \in DOMAIN current_state :
        /\ Overdue(i)
        /\ Before(i).room \in {"Kitchen", "Bedroom"}
        /\ ~current_state[i].present
        /\ current_state[i].room = "not_home"

\* C37: after every ingest of a known device the device is present and its
\* room is the room_name of one of its alive sources, for every satellite,
\* every RSSI value and every reference RSSI.
C37_IngestPlacesDevice ==
    IngestedKnown =>
        LET st == current_state[obs.identifier]
        IN  /\ st.present
            /\ \E s \in SeenAlive(st, now) : st.sources[s].room_name = st.room

\* the distance calculate_distance returns for a smoothed RSSI of 0 or on an
\* arithmetic failure
ErrorDistance == calculate_distance(0, default_ref_rssi)

\* the closest alive source of `room` in the evaluation of device i is one
\* whose distance is the error value
RoomByError(i, room) ==
    /\ SeenInRoom(Evaluation(i), now, room) # {}
    /\ SeenMinDist(Evaluation(i), SeenInRoom(Evaluation(i), now, room)) = ErrorDistance

\* C38: a source whose distance is the error value -1.0 is never picked as
\* the best source of an evaluation, and never makes a room pending nor
\* changes the room.
C38_ErrorDistanceIgnored ==
    \A i \in DOMAIN current_state :
        Evaluated(i) =>
            LET best == SelectBest(Evaluation(i), now, 1, None, NO_DIST)
            IN  /\ best # None => current_state[i].sources[best].distance # ErrorDistance
                /\ Transitioned(i) => ~RoomByError(i, current_state[i].room)
                /\ (i \in DOMAIN zoning_state
                    /\ zoning_state[i].pending_room # Before(i).pending_room
                    /\ zoning_state[i].pending_room # None)
                      => ~RoomByError(i, zoning_state[i].pending_room)

\* the step just taken handed a state update of device i to the bus client
\* while the client was connected
Delivered(i) ==
    \E k \in 1..Len(outbox) : Upper(outbox[k].identifier) = i /\ outbox[k].sent

\* C39: whenever publish_update records a new last-published time for a
\* device, the state and attribute messages of that device were handed to
\* the bus client: a publish attempted while the bus is disconnected does
\* not advance last_published.
C39_StampOnlyWhenSent ==
    \A i \in DOMAIN current_state \cap DOMAIN obs.pre :
        current_state[i].last_pub # Before(i).last_pub => Delivered(i)

\* C40: within one calibration session, once a status request has reported
\* stable = true and progress = 100, every later status request of the
\* session reports stable = true and progress = 100, whatever readings were
\* appended in between.
C40_StabilityMonotone ==
    [][(/\ reply.kind = "status" /\ reply.stable /\ reply.progress = 100
        /\ obs'.op = "calibrate_status")
       => (reply'.kind = "status" /\ reply'.stable /\ reply'.progress = 100)]_vars

\* C40 (amended): once a status request has reported stable = true and
\* progress = 100, a later status request of the same session reports
\* stable = true and progress = 100 if 45 s or more have elapsed or the last
\* 30 readings still have a standard deviation below 2.0, and stable = false
\* with a progress below 100 otherwise.
C40_StableWhileSteady ==
    [][(/\ reply.kind = "status" /\ reply.stable /\ reply.progress = 100
        /\ obs'.op = "calibrate_status")
       => /\ reply'.kind = "status"
          /\ LET session == calib_sessions'[obs'.sat]
             IN  IF \/ now' - session.start >= 45
                    \/ SpreadOfLast30(session.readings) < 4 * 29 * 900
                 THEN reply'.stable /\ reply'.progress = 100
                 ELSE ~reply'.stable /\ reply'.progress < 100]_vars

\* a status request has reported the session stable before 45 s, and the
\* satellite's fresh sample, which the next status request will append,
\* brings the standard deviation of the last 30 readings to 2.0 or more
C40_Witness ==
    /\ StatusAnswered
    /\ reply.stable /\ reply.progress = 100
    /\ now - calib_sessions[obs.sat].start < 45
    /\ obs.sat \in DOMAIN last_sat_signals
    /\ now - last_sat_signals[obs.sat].time < 10
    /\ Len(calib_sessions[obs.sat].readings) < MaxReadings
    /\ SpreadOfLast30(Append(calib_sessions[obs.sat].readings,
                             last_sat_signals[obs.sat].rssi)) >= 4 * 29 * 900

=============================================================================
